---- MODULE Spec2Model ----
(***************************************************************************)
(* Signal generation and position management of the BTC/USDT trading bot   *)
(* (trading_bot.py, price_action.py, indicators.py, config.py).            *)
(*                                                                         *)
(* Prices are whole USDT, amounts are multiples of 0.001 BTC, and every    *)
(* value the code computes by division (entry_price, pnl_percent, the      *)
(* rolling means, ...) is an exact fraction [n, d]; float('inf') is the    *)
(* fraction 1/0 and NaN the fraction 0/0.                                  *)
(***************************************************************************)
EXTENDS Integers, Sequences, FiniteSets, TLC

(***************************************************************************)
(* Exact fractions                                                         *)
(***************************************************************************)
Abs(i) == IF i < 0 THEN -i ELSE i

RECURSIVE GCD(_, _)
GCD(a, b) == IF b = 0 THEN a ELSE GCD(b, a % b)

\* the fraction n/d in lowest terms with a positive denominator (d # 0)
Frac(n, d) ==
    LET g == GCD(Abs(n), Abs(d))
        s == IF d < 0 THEN -1 ELSE 1
    IN  [n |-> (s * n) \div g, d |-> (s * d) \div g]

Num(i) == [n |-> i, d |-> 1]
Infinity == [n |-> 1, d |-> 0]
FLt(a, b) == a.n * b.d < b.n * a.d
FLe(a, b) == a.n * b.d <= b.n * a.d
FGt(a, b) == FLt(b, a)
FGe(a, b) == FLe(b, a)
FAdd(a, b) == Frac(a.n * b.d + b.n * a.d, a.d * b.d)
FSub(a, b) == Frac(a.n * b.d - b.n * a.d, a.d * b.d)
FMul(a, b) == Frac(a.n * b.n, a.d * b.d)
FDiv(a, b) == Frac(a.n * b.d, a.d * b.n)
FNeg(a) == [n |-> -a.n, d |-> a.d]
\* NaN: a rolling mean before its window is full, and 0.0 / 0.0; every
\* comparison with FLt and FGt of NaN is false, as every comparison of a
\* float NaN is
NaN == [n |-> 0, d |-> 0]
\* a / b on float64 columns: x / 0 is inf, -inf or, for x = 0, NaN
FloatDiv(a, b) ==
    IF a = NaN \/ b = NaN THEN NaN
    ELSE IF b.n = 0 /\ b.d # 0
    THEN (IF a.n > 0 THEN Infinity ELSE IF a.n < 0 THEN FNeg(Infinity) ELSE NaN)
    ELSE FDiv(a, b)

(***************************************************************************)
(* Bounds of the model                                                     *)
(***************************************************************************)
\* run(iterations = MaxIterations)
MaxIterations == 3
\* length of a sequence of direct method calls
MaxCalls == 5
\* closed trades a sequence of direct calls may record: the calls open and
\* pyramid positions, and close them once the bound is raised; a sequence of
\* calls taken statement by statement starts no close with more entries
MaxTrades == 0
\* candles at the end of a window that vary from window to window
MaxTail == 6
\* iterations of a long session: signals_history holds 20 signals
MaxTicks == 22

(***************************************************************************)
(* config.py and the constants of BTCTradingBot.__init__                   *)
(***************************************************************************)
\* config.TRADE_AMOUNT and config.MAX_POSITION_SIZE come from the environment;
\* their defaults are 0.001 BTC, the unit of every amount, and 0.01 BTC
Defaults == [TRADE_AMOUNT |-> 1, MAX_POSITION_SIZE |-> 10]
STOP_LOSS_PERCENT == 3
TAKE_PROFIT_PERCENT == 6
max_pyramid_levels == 3
\* 1.5
pyramid_step_percent == [n |-> 3, d |-> 2]
pullback_percent == 1
bounce_percent == 1
min_confidence == 60

Min(a, b) == IF a < b THEN a ELSE b

(***************************************************************************)
(* The frame that add_all_indicators returns, as the analyzer reads it: the *)
(* number of candles (len) and, of the last candles, close, volume and the  *)
(* indicator columns (close_5, obv_5: iloc[-5]; volume_prev: iloc[-2]).     *)
(***************************************************************************)
Prices == {94, 97, 100, 103, 106}
MAValues == {Num(98), Num(100), Num(101)}

Rows ==
    [len : {60}, close : Prices, close_5 : {97, 103},
     ma_10 : MAValues, ma_30 : MAValues, ma_60 : MAValues,
     obv : {-1, 0, 1}, obv_ma : {Num(0)}, obv_5 : {-2, 2},
     volume : {10, 20}, volume_prev : {5, 20}, volume_sma : {Num(10)}]

\* mutant: the position of close relative to ma_10 is not checked
detect_trend_ma_only(data) ==
    IF data.len < 60 THEN "neutral"
    ELSE IF FGt(data.ma_10, data.ma_30) /\ FGt(data.ma_30, data.ma_60)
    THEN "bullish"
    ELSE IF FLt(data.ma_10, data.ma_30) /\ FLt(data.ma_30, data.ma_60)
    THEN "bearish"
    ELSE "neutral"

\* mutant: the moving averages are compared with >= and <=
detect_trend_non_strict(data) ==
    IF data.len < 60 THEN "neutral"
    ELSE IF /\ FGe(data.ma_10, data.ma_30) /\ FGe(data.ma_30, data.ma_60)
            /\ FGt(Num(data.close), data.ma_10)
    THEN "bullish"
    ELSE IF /\ FLe(data.ma_10, data.ma_30) /\ FLe(data.ma_30, data.ma_60)
            /\ FLt(Num(data.close), data.ma_10)
    THEN "bearish"
    ELSE "neutral"

detect_trend(data) ==
    IF data.len < 60 THEN "neutral"
    ELSE IF /\ FGt(data.ma_10, data.ma_30) /\ FGt(data.ma_30, data.ma_60)
            /\ FGt(Num(data.close), data.ma_10)
    THEN "bullish"
    ELSE IF /\ FLt(data.ma_10, data.ma_30) /\ FLt(data.ma_30, data.ma_60)
            /\ FLt(Num(data.close), data.ma_10)
    THEN "bearish"
    ELSE "neutral"

\* mutant: a spread of exactly 2 % or -2 % counts as strong
detect_main_trend_inclusive(data) ==
    LET diff_percent == FMul(FDiv(FSub(data.ma_30, data.ma_60), data.ma_60), Num(100))
    IN  IF data.len < 60 THEN "neutral"
        ELSE IF FGe(diff_percent, Num(2)) THEN "strong_bullish"
        ELSE IF FGt(diff_percent, Frac(1, 2)) THEN "bullish"
        ELSE IF FLe(diff_percent, Num(-2)) THEN "strong_bearish"
        ELSE IF FLt(diff_percent, Frac(-1, 2)) THEN "bearish"
        ELSE "neutral"

detect_main_trend(data) ==
    LET diff_percent == FMul(FDiv(FSub(data.ma_30, data.ma_60), data.ma_60), Num(100))
    IN  IF data.len < 60 THEN "neutral"
        ELSE IF FGt(diff_percent, Num(2)) THEN "strong_bullish"
        ELSE IF FGt(diff_percent, Frac(1, 2)) THEN "bullish"
        ELSE IF FLt(diff_percent, Num(-2)) THEN "strong_bearish"
        ELSE IF FLt(diff_percent, Frac(-1, 2)) THEN "bearish"
        ELSE "neutral"

analyze_volume(data) ==
    LET volume_ratio == FloatDiv(Num(data.volume), data.volume_sma)
    IN  IF data.len < 2 THEN [high_volume |-> FALSE, increasing_volume |-> FALSE]
        ELSE [high_volume |-> FGt(volume_ratio, Frac(3, 2)),
              increasing_volume |-> data.volume > data.volume_prev,
              volume_ratio |-> volume_ratio]

analyze_obv(data) ==
    LET price_trend == IF data.close > data.close_5 THEN "up" ELSE "down"
        obv_change == data.obv - data.obv_5
        obv_price_trend == IF obv_change > 0 THEN "up" ELSE "down"
    IN  IF data.len < 20 THEN [obv_trend |-> "neutral", obv_divergence |-> FALSE]
        ELSE [obv_trend |-> IF FGt(Num(data.obv), data.obv_ma) THEN "bullish"
                            ELSE IF FLt(Num(data.obv), data.obv_ma) THEN "bearish"
                            ELSE "neutral",
              obv_divergence |-> price_trend # obv_price_trend,
              obv_value |-> data.obv]

\* close > ma10 > ma30 and close < ma10 < ma30
price_above_key_mas(data) == FGt(Num(data.close), data.ma_10) /\ FGt(data.ma_10, data.ma_30)
price_below_key_mas(data) == FLt(Num(data.close), data.ma_10) /\ FLt(data.ma_10, data.ma_30)

Opt(c, s) == IF c THEN <<s>> ELSE <<>>
Votes(c, k) == IF c THEN k ELSE 0

\* mutant: a bullish trend is worth three votes
buy_conditions_trend_three(data) ==
    Votes(detect_trend(data) = "bullish", 3)
    + Votes(analyze_obv(data).obv_trend = "bullish", 1)
    + Votes(analyze_volume(data).high_volume, 1)
    + Votes(analyze_volume(data).increasing_volume, 1)
    + Votes(price_above_key_mas(data), 1)
    + Votes(FGt(Num(data.close), data.ma_60), 1)

buy_conditions(data) ==
    Votes(detect_trend(data) = "bullish", 2)
    + Votes(analyze_obv(data).obv_trend = "bullish", 1)
    + Votes(analyze_volume(data).high_volume, 1)
    + Votes(analyze_volume(data).increasing_volume, 1)
    + Votes(price_above_key_mas(data), 1)
    + Votes(FGt(Num(data.close), data.ma_60), 1)

buy_reasons(data) ==
    Opt(detect_trend(data) = "bullish", "Bullish trend detected")
    \o Opt(analyze_obv(data).obv_trend = "bullish", "OBV trending up")
    \o Opt(analyze_volume(data).high_volume, "High volume")
    \o Opt(analyze_volume(data).increasing_volume, "Increasing volume")
    \o Opt(price_above_key_mas(data), "Price above key MAs")
    \o Opt(FGt(Num(data.close), data.ma_60), "Price above long-term MA")

\* mutant: only a strong main trend blocks SELL
sell_vetoed_strong_only(data) == detect_main_trend(data) \in {"strong_bullish"}

sell_vetoed(data) == detect_main_trend(data) \in {"strong_bullish", "bullish"}

\* mutant: a bearish trend is worth one vote
sell_conditions_trend_one(data) ==
    IF sell_vetoed(data) THEN 0
    ELSE Votes(detect_trend(data) = "bearish", 1)
         + Votes(analyze_obv(data).obv_trend = "bearish", 1)
         + Votes(price_below_key_mas(data), 1)
         + Votes(FLt(Num(data.close), data.ma_60), 1)
         + Votes(analyze_obv(data).obv_divergence, 1)
         + Votes(analyze_volume(data).high_volume, 1)

sell_conditions(data) ==
    IF sell_vetoed(data) THEN 0
    ELSE Votes(detect_trend(data) = "bearish", 2)
         + Votes(analyze_obv(data).obv_trend = "bearish", 1)
         + Votes(price_below_key_mas(data), 1)
         + Votes(FLt(Num(data.close), data.ma_60), 1)
         + Votes(analyze_obv(data).obv_divergence, 1)
         + Votes(analyze_volume(data).high_volume, 1)

\* the reasons list as it stands after the SELL block (lines 181-251)
reasons(data) ==
    IF sell_vetoed(data) THEN <<"Main trend is bullish - avoiding SHORT">>
    ELSE buy_reasons(data)
         \o Opt(detect_trend(data) = "bearish", "Bearish trend detected")
         \o Opt(analyze_obv(data).obv_trend = "bearish", "OBV trending down")
         \o Opt(price_below_key_mas(data), "Price below key MAs")
         \o Opt(FLt(Num(data.close), data.ma_60), "Price below long-term MA")
         \o Opt(analyze_obv(data).obv_divergence, "OBV divergence detected")
         \o Opt(analyze_volume(data).high_volume, "High volume confirmation")

\* mutant: confidence is not capped at 100
scored_signal_uncapped(data) ==
    LET buy == buy_conditions(data)
        sell == sell_conditions(data)
        kind == IF buy >= 4 THEN "BUY" ELSE IF sell >= 4 THEN "SELL" ELSE "HOLD"
    IN  [signal |-> kind,
         confidence |-> IF kind = "BUY" THEN buy * 15
                        ELSE IF kind = "SELL" THEN sell * 15
                        ELSE 0,
         reasons |-> IF kind = "HOLD"
                     THEN <<"Waiting for stronger confirmation (BUY:" \o ToString(buy)
                            \o "/4, SELL:" \o ToString(sell) \o "/4)">>
                     ELSE reasons(data),
         trend |-> detect_trend(data),
         main_trend |-> detect_main_trend(data),
         volume_analysis |-> analyze_volume(data),
         obv_analysis |-> analyze_obv(data),
         price |-> data.close,
         ma10 |-> data.ma_10,
         ma30 |-> data.ma_30,
         ma60 |-> data.ma_60]

\* mutant: a vote is worth 10 % of confidence
scored_signal_ten_per_vote(data) ==
    LET buy == buy_conditions(data)
        sell == sell_conditions(data)
        kind == IF buy >= 4 THEN "BUY" ELSE IF sell >= 4 THEN "SELL" ELSE "HOLD"
    IN  [signal |-> kind,
         confidence |-> IF kind = "BUY" THEN Min(buy * 10, 100)
                        ELSE IF kind = "SELL" THEN Min(sell * 10, 100)
                        ELSE 0,
         reasons |-> IF kind = "HOLD"
                     THEN <<"Waiting for stronger confirmation (BUY:" \o ToString(buy)
                            \o "/4, SELL:" \o ToString(sell) \o "/4)">>
                     ELSE reasons(data),
         trend |-> detect_trend(data),
         main_trend |-> detect_main_trend(data),
         volume_analysis |-> analyze_volume(data),
         obv_analysis |-> analyze_obv(data),
         price |-> data.close,
         ma10 |-> data.ma_10,
         ma30 |-> data.ma_30,
         ma60 |-> data.ma_60]

\* lines 178-278: the dict generate_signal returns for at least 60 candles
scored_signal(data) ==
    LET buy == buy_conditions(data)
        sell == sell_conditions(data)
        kind == IF buy >= 4 THEN "BUY" ELSE IF sell >= 4 THEN "SELL" ELSE "HOLD"
    IN  [signal |-> kind,
         confidence |-> IF kind = "BUY" THEN Min(buy * 15, 100)
                        ELSE IF kind = "SELL" THEN Min(sell * 15, 100)
                        ELSE 0,
         reasons |-> IF kind = "HOLD"
                     THEN <<"Waiting for stronger confirmation (BUY:" \o ToString(buy)
                            \o "/4, SELL:" \o ToString(sell) \o "/4)">>
                     ELSE reasons(data),
         trend |-> detect_trend(data),
         main_trend |-> detect_main_trend(data),
         volume_analysis |-> analyze_volume(data),
         obv_analysis |-> analyze_obv(data),
         price |-> data.close,
         ma10 |-> data.ma_10,
         ma30 |-> data.ma_30,
         ma60 |-> data.ma_60]

\* mutant: a frame is scored from 59 candles on
generate_signal_from_59(data) ==
    IF data.len < 59
    THEN [signal |-> "HOLD", confidence |-> 0, reason |-> "Insufficient data"]
    ELSE scored_signal(data)

generate_signal(data) ==
    IF data.len < 60
    THEN [signal |-> "HOLD", confidence |-> 0, reason |-> "Insufficient data"]
    ELSE scored_signal(data)

\* the keys of the signal dict that BTCTradingBot reads outside its logging
BotKeys == {"signal", "confidence", "price", "trend", "main_trend"}
BotView(sig) == [k \in BotKeys |-> sig[k]]
\* dict.get(key): None when the key is missing
Get(d, k) == IF k \in DOMAIN d THEN d[k] ELSE "None"

\* every signal generate_signal can hand to the bot
Signals == {BotView(generate_signal(row)) : row \in Rows}

\* signal dicts a direct caller of the bot's methods may pass: main_trend also
\* takes the upper-case values the bot compares it with
CallSignals ==
    [signal : {"BUY", "SELL", "HOLD"}, confidence : {45, 75}, price : Prices,
     trend : {"neutral"}, main_trend : {"BULLISH", "BEARISH", "bullish"}]

\* what the exchange answers during one call: the balance get_balance returns
\* (0 also when fetch_balance raises; in 0.001 USDT or 0.001 BTC, so that 1000
\* covers every order) and whether create_market_order succeeds
Balances == {0, 1000}
Answers == [balance : Balances, ok : BOOLEAN]
NoAnswer == [balance |-> 0, ok |-> FALSE]

(***************************************************************************)
(* State                                                                   *)
(***************************************************************************)
VARIABLES
    TESTNET,             \* config.TESTNET
    TRADE_AMOUNT,        \* config.TRADE_AMOUNT
    MAX_POSITION_SIZE,   \* config.MAX_POSITION_SIZE
    position,            \* "none" (None), "long", "short"
    entry_price,
    position_size,
    pyramid_levels,      \* sequence of [price, size]
    last_pyramid_price,
    local_high,
    local_low,
    session_stats,       \* session_stats: the signal counters, the price range, signals_history
    closed_trades,       \* session_stats['closed_trades']
    positions_opened,    \* session_stats['positions_opened']
    positions_closed,    \* session_stats['positions_closed']
    orders,              \* orders submitted by the running tick or call: [side, amount, filled]
    pc,                  \* position of run() in its loop body
    iteration,           \* run's iteration counter
    signal,              \* run's local variable signal
    tick_start,          \* history: the bot as the running tick found it
    before_dispatch,     \* history: the bot after check_stop_loss_take_profit
    exits,               \* history: number of transitions of position to None
    initial_lot,         \* history: [price, size] of the lot that opened the position
    args,                \* the argument of the analyzer function under evaluation
    returned             \* what that function returned

bot_vars == <<position, entry_price, position_size, pyramid_levels, last_pyramid_price,
              local_high, local_low, session_stats, closed_trades, positions_opened,
              positions_closed, orders>>
run_vars == <<pc, iteration, signal, tick_start, before_dispatch>>
eval_vars == <<args, returned>>
config_vars == <<TESTNET, TRADE_AMOUNT, MAX_POSITION_SIZE>>
vars == <<config_vars, bot_vars, run_vars, exits, initial_lot, eval_vars>>

\* config.py has been imported with the amounts of c
Configured(c) ==
    /\ TRADE_AMOUNT = c.TRADE_AMOUNT
    /\ MAX_POSITION_SIZE = c.MAX_POSITION_SIZE

\* the bot object
Self ==
    [position |-> position, entry_price |-> entry_price, position_size |-> position_size,
     pyramid_levels |-> pyramid_levels, last_pyramid_price |-> last_pyramid_price,
     local_high |-> local_high, local_low |-> local_low,
     session_stats |-> session_stats, closed_trades |-> closed_trades, positions_opened |-> positions_opened,
     positions_closed |-> positions_closed, orders |-> orders]

NoSignal == [k \in BotKeys |-> "None"]

__init__ ==
    [position |-> "none", entry_price |-> Num(0), position_size |-> 0,
     pyramid_levels |-> <<>>, last_pyramid_price |-> Num(0),
     local_high |-> Num(0), local_low |-> Infinity,
     session_stats |-> [total_signals |-> 0, buy_signals |-> 0, sell_signals |-> 0,
                        hold_signals |-> 0, max_price |-> Num(0), min_price |-> Infinity,
                        signals_history |-> <<>>],
     closed_trades |-> <<>>, positions_opened |-> 0, positions_closed |-> 0,
     orders |-> <<>>]

(***************************************************************************)
(* Methods of BTCTradingBot: each maps the bot (self) and the answers of   *)
(* the exchange during the call to the bot after the call.                 *)
(***************************************************************************)
\* place_order returns a dict (TRUE) or None (FALSE); ok says whether
\* create_market_order succeeds, and the testnet branch never calls it
order_filled(ok) == TESTNET \/ ok

place_order(self, side, amount, ok) ==
    [self EXCEPT !.orders = Append(@, [side |-> side, amount |-> amount,
                                       filled |-> order_filled(ok)])]

\* mutant: entry_price and position_size survive the reset
reset_position_tracking_partial(self) ==
    [self EXCEPT !.position = "none",
                 !.pyramid_levels = <<>>, !.last_pyramid_price = Num(0),
                 !.local_high = Num(0), !.local_low = Infinity]

reset_position_tracking(self) ==
    [self EXCEPT !.position = "none", !.entry_price = Num(0), !.position_size = 0,
                 !.pyramid_levels = <<>>, !.last_pyramid_price = Num(0),
                 !.local_high = Num(0), !.local_low = Infinity]

\* pnl_percent and pnl_usdt as every exit computes them
long_pnl_percent(self, price) ==
    FMul(FDiv(FSub(Num(price), self.entry_price), self.entry_price), Num(100))
short_pnl_percent(self, price) ==
    FMul(FDiv(FSub(self.entry_price, Num(price)), self.entry_price), Num(100))
long_pnl_usdt(self, price) ==
    FMul(Num(self.position_size), FSub(Num(price), self.entry_price))
\* mutant: the SHORT profit in USDT is computed as for a LONG
short_pnl_usdt_as_long(self, price) ==
    FMul(Num(self.position_size), FSub(Num(price), self.entry_price))
short_pnl_usdt(self, price) ==
    FMul(Num(self.position_size), FSub(self.entry_price, Num(price)))

\* closed_trades.append({...}); positions_closed += 1
track_closed_trade(self, type, price, pnl_percent, pnl_usdt) ==
    [self EXCEPT !.closed_trades = Append(@, [type |-> type,
                                              entry_price |-> self.entry_price,
                                              exit_price |-> price,
                                              position_size |-> self.position_size,
                                              pnl_percent |-> pnl_percent,
                                              pnl_usdt |-> pnl_usdt]),
                 !.positions_closed = @ + 1]

\* mutant: positions_opened is not incremented
open_position_uncounted(self, side, price, trade_amount) ==
    [self EXCEPT !.position = side, !.entry_price = Num(price),
                 !.position_size = trade_amount]

open_position(self, side, price, trade_amount) ==
    [self EXCEPT !.position = side, !.entry_price = Num(price),
                 !.position_size = trade_amount, !.positions_opened = @ + 1]

execute_trade(self, sig, ans) ==
    IF sig.signal = "BUY" /\ sig.confidence >= min_confidence
    THEN IF self.position = "short"
         THEN LET tracked == IF FGt(self.entry_price, Num(0)) /\ self.position_size > 0
                             THEN track_closed_trade(self, "CLOSE_SHORT", sig.price,
                                                     short_pnl_percent(self, sig.price),
                                                     short_pnl_usdt(self, sig.price))
                             ELSE self
                  trade_amount == IF self.position_size > 0 THEN self.position_size
                                  ELSE TRADE_AMOUNT
                  ordered == place_order(tracked, "buy", trade_amount, ans.ok)
              IN  IF order_filled(ans.ok) THEN reset_position_tracking(ordered) ELSE ordered
         ELSE IF self.position = "none"
         THEN LET trade_amount == Min(TRADE_AMOUNT, MAX_POSITION_SIZE)
              IN  IF ans.balance > sig.price * trade_amount
                  THEN LET ordered == place_order(self, "buy", trade_amount, ans.ok)
                       IN  IF order_filled(ans.ok)
                           THEN open_position(ordered, "long", sig.price, trade_amount)
                           ELSE ordered
                  ELSE self
         ELSE self
    ELSE IF sig.signal = "SELL" /\ sig.confidence >= min_confidence
    THEN IF self.position = "long"
         THEN LET tracked == IF FGt(self.entry_price, Num(0)) /\ self.position_size > 0
                             THEN track_closed_trade(self, "CLOSE_LONG", sig.price,
                                                     long_pnl_percent(self, sig.price),
                                                     long_pnl_usdt(self, sig.price))
                             ELSE self
              IN  IF ans.balance > 0
                  THEN LET ordered == place_order(tracked, "sell", ans.balance, ans.ok)
                       IN  IF order_filled(ans.ok) THEN reset_position_tracking(ordered)
                           ELSE ordered
                  ELSE tracked
         ELSE IF self.position = "none"
         THEN LET trade_amount == TRADE_AMOUNT
              IN  IF TESTNET
                  THEN open_position(self, "short", sig.price, trade_amount)
                  ELSE IF ans.balance >= trade_amount
                  THEN LET ordered == place_order(self, "sell", trade_amount, ans.ok)
                       IN  IF order_filled(ans.ok)
                           THEN open_position(ordered, "short", sig.price, trade_amount)
                           ELSE ordered
                  ELSE self
         ELSE self
    ELSE self

update_local_extremes(self, current_price, sig) ==
    LET high == IF (Get(sig, "trend") = "BULLISH" \/ Get(sig, "main_trend") = "BULLISH")
                   /\ FGt(Num(current_price), self.local_high)
                THEN Num(current_price) ELSE self.local_high
        low == IF (Get(sig, "trend") = "BEARISH" \/ Get(sig, "main_trend") = "BEARISH")
                  /\ FLt(Num(current_price), self.local_low)
               THEN Num(current_price) ELSE self.local_low
    IN  [self EXCEPT !.local_high = high, !.local_low = low]

ref_price(self) ==
    IF FGt(self.last_pyramid_price, Num(0)) THEN self.last_pyramid_price
    ELSE self.entry_price

\* mutant: the check of max_pyramid_levels is missing
check_pyramid_opportunity_unbounded(self, current_price, sig) ==
    IF self.position = "none" THEN FALSE
    ELSE IF self.position = "long"
    THEN LET gain_percent == FMul(FDiv(FSub(Num(current_price), ref_price(self)),
                                       ref_price(self)), Num(100))
         IN  FGe(gain_percent, pyramid_step_percent)
             /\ sig.signal = "BUY" /\ Get(sig, "main_trend") = "BULLISH"
    ELSE LET gain_percent == FMul(FDiv(FSub(ref_price(self), Num(current_price)),
                                       ref_price(self)), Num(100))
         IN  FGe(gain_percent, pyramid_step_percent)
             /\ sig.signal = "SELL" /\ Get(sig, "main_trend") = "BEARISH"

check_pyramid_opportunity(self, current_price, sig) ==
    IF self.position = "none" THEN FALSE
    ELSE IF Len(self.pyramid_levels) >= max_pyramid_levels THEN FALSE
    ELSE IF self.position = "long"
    THEN LET gain_percent == FMul(FDiv(FSub(Num(current_price), ref_price(self)),
                                       ref_price(self)), Num(100))
         IN  FGe(gain_percent, pyramid_step_percent)
             /\ sig.signal = "BUY" /\ Get(sig, "main_trend") = "BULLISH"
    ELSE LET gain_percent == FMul(FDiv(FSub(ref_price(self), Num(current_price)),
                                       ref_price(self)), Num(100))
         IN  FGe(gain_percent, pyramid_step_percent)
             /\ sig.signal = "SELL" /\ Get(sig, "main_trend") = "BEARISH"

RECURSIVE levels_cost(_)
levels_cost(levels) ==
    IF levels = <<>> THEN 0
    ELSE Head(levels).price * Head(levels).size + levels_cost(Tail(levels))

\* mutant: position_size = trade_amount instead of += trade_amount
track_pyramid_level_assigned(self, price, trade_amount) ==
    LET levels == Append(self.pyramid_levels, [price |-> price, size |-> trade_amount])
        total_cost == FAdd(FMul(self.entry_price, Num(self.position_size)),
                           Num(levels_cost(levels)))
        size == trade_amount
    IN  [self EXCEPT !.pyramid_levels = levels,
                     !.last_pyramid_price = Num(price),
                     !.position_size = size,
                     !.entry_price = FDiv(total_cost, Num(size))]

\* lines 424-437 and 448-461: the same bookkeeping for both sides
track_pyramid_level(self, price, trade_amount) ==
    LET levels == Append(self.pyramid_levels, [price |-> price, size |-> trade_amount])
        total_cost == FAdd(FMul(self.entry_price, Num(self.position_size)),
                           Num(levels_cost(levels)))
        size == self.position_size + trade_amount
    IN  [self EXCEPT !.pyramid_levels = levels,
                     !.last_pyramid_price = Num(price),
                     !.position_size = size,
                     !.entry_price = FDiv(total_cost, Num(size))]

add_to_position(self, sig, ans) ==
    LET trade_amount == TRADE_AMOUNT
    IN  IF self.position = "long"
        THEN LET ordered == place_order(self, "buy", trade_amount, ans.ok)
             IN  IF order_filled(ans.ok)
                 THEN track_pyramid_level(ordered, sig.price, trade_amount)
                 ELSE ordered
        ELSE IF self.position = "short"
        THEN LET ordered == place_order(self, "sell", trade_amount, ans.ok)
             IN  IF order_filled(ans.ok)
                 THEN track_pyramid_level(ordered, sig.price, trade_amount)
                 ELSE ordered
        ELSE self

\* mutant: the check for an open position is missing
check_contrarian_entry_any_position(self, current_price, sig) ==
    IF Get(sig, "main_trend") = "BULLISH" /\ FGt(self.local_high, Num(0))
    THEN LET pullback == FMul(FDiv(FSub(self.local_high, Num(current_price)),
                                   self.local_high), Num(100))
         IN  FGe(pullback, Num(pullback_percent)) /\ Get(sig, "obv_trend") = "bullish"
    ELSE IF Get(sig, "main_trend") = "BEARISH" /\ FLt(self.local_low, Infinity)
    THEN LET bounce == FMul(FDiv(FSub(Num(current_price), self.local_low),
                                 self.local_low), Num(100))
         IN  FGe(bounce, Num(bounce_percent)) /\ Get(sig, "obv_trend") = "bearish"
    ELSE FALSE

check_contrarian_entry(self, current_price, sig) ==
    IF self.position # "none" THEN FALSE
    ELSE IF Get(sig, "main_trend") = "BULLISH" /\ FGt(self.local_high, Num(0))
    THEN LET pullback == FMul(FDiv(FSub(self.local_high, Num(current_price)),
                                   self.local_high), Num(100))
         IN  FGe(pullback, Num(pullback_percent)) /\ Get(sig, "obv_trend") = "bullish"
    ELSE IF Get(sig, "main_trend") = "BEARISH" /\ FLt(self.local_low, Infinity)
    THEN LET bounce == FMul(FDiv(FSub(Num(current_price), self.local_low),
                                 self.local_low), Num(100))
         IN  FGe(bounce, Num(bounce_percent)) /\ Get(sig, "obv_trend") = "bearish"
    ELSE FALSE

\* the close that a stop loss and a take profit perform alike (lines 541-574, 580-613)
forced_close(self, kind, current_price, pnl_percent, ans) ==
    IF self.position = "long"
    THEN LET tracked == track_closed_trade(self, kind \o "_LONG", current_price,
                                           pnl_percent, long_pnl_usdt(self, current_price))
         IN  IF ans.balance > 0
             THEN reset_position_tracking(place_order(tracked, "sell", ans.balance, ans.ok))
             ELSE tracked
    ELSE LET tracked == track_closed_trade(self, kind \o "_SHORT", current_price,
                                           pnl_percent, short_pnl_usdt(self, current_price))
             trade_amount == IF self.position_size > 0 THEN self.position_size
                             ELSE TRADE_AMOUNT
         IN  reset_position_tracking(place_order(tracked, "buy", trade_amount, ans.ok))

check_stop_loss_take_profit(self, current_price, ans) ==
    IF self.position = "none" \/ self.entry_price = Num(0) THEN self
    ELSE LET pnl_percent == IF self.position = "long"
                            THEN long_pnl_percent(self, current_price)
                            ELSE short_pnl_percent(self, current_price)
         IN  IF FLe(pnl_percent, Num(-STOP_LOSS_PERCENT))
             THEN forced_close(self, "STOP_LOSS", current_price, pnl_percent, ans)
             ELSE IF FGe(pnl_percent, Num(TAKE_PROFIT_PERCENT))
             THEN forced_close(self, "TAKE_PROFIT", current_price, pnl_percent, ans)
             ELSE self

\* the entry of signals_history, without its time stamp
history_entry(sig) ==
    [signal |-> sig.signal, confidence |-> sig.confidence, price |-> sig.price,
     trend |-> sig.trend,
     main_trend |-> IF "main_trend" \in DOMAIN sig THEN sig.main_trend ELSE "N/A"]

\* mutant: the newest entry is dropped from a full history
track_signal_pop_last(self, sig) ==
    LET stats == self.session_stats
        history == Append(stats.signals_history, history_entry(sig))
    IN  [self EXCEPT !.session_stats =
            [total_signals |-> stats.total_signals + 1,
             buy_signals |-> stats.buy_signals + (IF sig.signal = "BUY" THEN 1 ELSE 0),
             sell_signals |-> stats.sell_signals + (IF sig.signal = "SELL" THEN 1 ELSE 0),
             hold_signals |-> stats.hold_signals
                              + (IF sig.signal \notin {"BUY", "SELL"} THEN 1 ELSE 0),
             max_price |-> IF FGt(Num(sig.price), stats.max_price) THEN Num(sig.price)
                           ELSE stats.max_price,
             min_price |-> IF FLt(Num(sig.price), stats.min_price) THEN Num(sig.price)
                           ELSE stats.min_price,
             signals_history |-> IF Len(history) > 20 THEN SubSeq(history, 1, 20) ELSE history]]

track_signal(self, sig) ==
    LET stats == self.session_stats
        history == Append(stats.signals_history, history_entry(sig))
    IN  [self EXCEPT !.session_stats =
            [total_signals |-> stats.total_signals + 1,
             buy_signals |-> stats.buy_signals + (IF sig.signal = "BUY" THEN 1 ELSE 0),
             sell_signals |-> stats.sell_signals + (IF sig.signal = "SELL" THEN 1 ELSE 0),
             hold_signals |-> stats.hold_signals
                              + (IF sig.signal \notin {"BUY", "SELL"} THEN 1 ELSE 0),
             max_price |-> IF FGt(Num(sig.price), stats.max_price) THEN Num(sig.price)
                           ELSE stats.max_price,
             min_price |-> IF FLt(Num(sig.price), stats.min_price) THEN Num(sig.price)
                           ELSE stats.min_price,
             signals_history |-> IF Len(history) > 20 THEN Tail(history) ELSE history]]

\* lines 937-948 of run: pyramid, else contrarian trade, else normal trade
dispatch(self, sig, ans) ==
    IF check_pyramid_opportunity(self, sig.price, sig)
    THEN add_to_position(self, sig, ans)
    ELSE IF check_contrarian_entry(self, sig.price, sig)
    THEN execute_trade(self, sig, ans)
    ELSE execute_trade(self, sig, ans)

\* lines 926-935 of run: the bot when run reaches the pyramid check
tick_checks(self, sig, sltp) ==
    LET tracked == track_signal(self, sig)
        updated == update_local_extremes(tracked, sig.price, sig)
    IN  check_stop_loss_take_profit(updated, sig.price, sltp)

\* lines 913-951 of run: the body of one iteration once the frame is fetched;
\* sltp and trade are the exchange's answers to check_stop_loss_take_profit
\* and to the trade that follows
tick(self, data, sltp, trade) ==
    IF data.len >= 60
    THEN LET sig == BotView(generate_signal(data))
         IN  dispatch(tick_checks(self, sig, sltp), sig, trade)
    ELSE self

(***************************************************************************)
(* Transitions                                                             *)
(***************************************************************************)
\* the bot becomes new; the history variables follow
Becomes(new) ==
    \E b \in {new} :
        /\ position' = b.position
        /\ entry_price' = b.entry_price
        /\ position_size' = b.position_size
        /\ pyramid_levels' = b.pyramid_levels
        /\ last_pyramid_price' = b.last_pyramid_price
        /\ local_high' = b.local_high
        /\ local_low' = b.local_low
        /\ session_stats' = b.session_stats
        /\ closed_trades' = b.closed_trades
        /\ positions_opened' = b.positions_opened
        /\ positions_closed' = b.positions_closed
        /\ orders' = b.orders
        /\ exits' = IF position # "none" /\ b.position = "none" THEN exits + 1 ELSE exits
        /\ initial_lot' = IF position = "none" /\ b.position # "none"
                          THEN [price |-> b.entry_price.n, size |-> b.position_size]
                          ELSE initial_lot

NoLot == [price |-> 0, size |-> 0]
NoArgs == "None"

Init ==
    /\ TESTNET \in BOOLEAN
    /\ Configured(Defaults)
    /\ position = __init__.position
    /\ entry_price = __init__.entry_price
    /\ position_size = __init__.position_size
    /\ pyramid_levels = __init__.pyramid_levels
    /\ last_pyramid_price = __init__.last_pyramid_price
    /\ local_high = __init__.local_high
    /\ local_low = __init__.local_low
    /\ session_stats = __init__.session_stats
    /\ closed_trades = __init__.closed_trades
    /\ positions_opened = __init__.positions_opened
    /\ positions_closed = __init__.positions_closed
    /\ orders = <<>>
    /\ pc = "fetch"
    /\ iteration = 0
    /\ signal = NoSignal
    /\ tick_start = __init__
    /\ before_dispatch = __init__
    /\ exits = 0
    /\ initial_lot = NoLot
    /\ args = NoArgs
    /\ returned = "None"

(* run(iterations = MaxIterations): one action per statement of the loop    *)
(* body that reads or writes the position. The signal statistics, which      *)
(* track_signal writes and only generate_session_report reads, are left out  *)
(* of this specification; SpecSession keeps them. print_analysis writes the  *)
(* log only.                                                                 *)

\* mutant: the skipped tick is counted as a signal
InsufficientData_counted ==
    /\ pc = "fetch" /\ iteration < MaxIterations
    /\ iteration' = iteration + 1
    /\ pc' = "no_data"
    /\ tick_start' = Self
    /\ before_dispatch' = Self
    /\ Becomes([Self EXCEPT !.session_stats.total_signals = @ + 1])
    /\ UNCHANGED <<config_vars, eval_vars, signal>>

\* lines 909-915 and 951: fetch_ohlcv_data returns None or fewer than 60 candles
InsufficientData ==
    /\ pc = "fetch" /\ iteration < MaxIterations
    /\ iteration' = iteration + 1
    /\ pc' = "no_data"
    /\ tick_start' = Self
    /\ before_dispatch' = Self
    /\ UNCHANGED <<config_vars, eval_vars, bot_vars, signal, exits, initial_lot>>

\* lines 909-923: at least 60 candles, add_all_indicators and generate_signal
Analyze ==
    /\ pc = "fetch" /\ iteration < MaxIterations
    /\ iteration' = iteration + 1
    /\ \E sig \in Signals : signal' = sig
    /\ pc' = "extremes"
    /\ Becomes([Self EXCEPT !.orders = <<>>])
    /\ tick_start' = [Self EXCEPT !.orders = <<>>]
    /\ before_dispatch' = [Self EXCEPT !.orders = <<>>]
    /\ UNCHANGED <<config_vars, eval_vars>>

\* line 929
UpdateLocalExtremes ==
    /\ pc = "extremes"
    /\ Becomes(update_local_extremes(Self, signal.price, signal))
    /\ pc' = "sltp"
    /\ UNCHANGED <<config_vars, eval_vars, iteration, signal, tick_start, before_dispatch>>

\* line 935
CheckStopLossTakeProfit ==
    /\ pc = "sltp"
    /\ \E ans \in Answers :
         LET new == check_stop_loss_take_profit(Self, signal.price, ans)
         IN  Becomes(new) /\ before_dispatch' = new
    /\ pc' = "dispatch"
    /\ UNCHANGED <<config_vars, eval_vars, iteration, signal, tick_start>>

\* lines 937-948
Dispatch ==
    /\ pc = "dispatch"
    /\ \E ans \in Answers : Becomes(dispatch(Self, signal, ans))
    /\ pc' = "tick_done"
    /\ UNCHANGED <<config_vars, eval_vars, iteration, signal, tick_start, before_dispatch>>

\* lines 953-968: four hours have passed since the last report, so run calls
\* generate_session_report; when makedirs or open raises, the handler of
\* line 965, outside the loop, ends run; otherwise run sleeps as in Sleep
GenerateSessionReport ==
    /\ pc \in {"tick_done", "no_data"}
    /\ \E written \in BOOLEAN :
         pc' = IF ~written THEN "crashed"
               ELSE IF iteration < MaxIterations THEN "sleeping" ELSE "done"
    /\ UNCHANGED <<config_vars, eval_vars, bot_vars, iteration, signal, tick_start,
                   before_dispatch, exits, initial_lot>>

\* lines 953-961 when no report is due: time.sleep is called if an iteration
\* is left; otherwise the loop condition of line 909 ends run
Sleep ==
    /\ pc \in {"tick_done", "no_data"}
    /\ pc' = IF iteration < MaxIterations THEN "sleeping" ELSE "done"
    /\ UNCHANGED <<config_vars, eval_vars, bot_vars, iteration, signal, tick_start, before_dispatch,
                   exits, initial_lot>>

\* time.sleep returns and the loop goes on
WakeUp ==
    /\ pc = "sleeping"
    /\ pc' = "fetch"
    /\ UNCHANGED <<config_vars, eval_vars, bot_vars, iteration, signal, tick_start, before_dispatch,
                   exits, initial_lot>>

\* lines 963-964: KeyboardInterrupt arrives during time.sleep; the handler
\* logs it and run returns
InterruptSleep ==
    /\ pc = "sleeping"
    /\ pc' = "interrupted"
    /\ UNCHANGED <<config_vars, eval_vars, bot_vars, iteration, signal, tick_start, before_dispatch,
                   exits, initial_lot>>

Next ==
    \/ InsufficientData
    \/ Analyze
    \/ UpdateLocalExtremes
    \/ CheckStopLossTakeProfit
    \/ Dispatch
    \/ GenerateSessionReport
    \/ Sleep
    \/ WakeUp
    \/ InterruptSleep

Spec == Init /\ [][Next]_vars

(* run(iterations = MaxIterations) with the signal statistics, an iteration  *)
(* being one step, over a market of six frames                               *)

\* frames that score HOLD, BUY and BUY (ma_60 = 98, obv = 1) and SELL, SELL
\* and HOLD (ma_60 = 101, obv = -1) at the prices 94, 100 and 106
SessionFrames ==
    {r \in Rows : /\ r.close \in {94, 100, 106} /\ r.close_5 = 103
                  /\ r.ma_10 = Num(100) /\ r.ma_30 = Num(100)
                  /\ <<r.ma_60.n, r.obv>> \in {<<98, 1>>, <<101, -1>>}
                  /\ r.obv_5 = -2 /\ r.volume = 20 /\ r.volume_prev = 5}

\* lines 909-948: a frame of at least 60 candles is fetched and acted on (every
\* frame of SessionFrames has 60, so the check of line 913 passes)
RunTick ==
    /\ pc = "fetch" /\ iteration < MaxIterations
    /\ iteration' = iteration + 1
    /\ pc' = "tick_done"
    /\ \E data \in SessionFrames, sltp \in Answers :
         \E sig \in {BotView(generate_signal(data))} :
         \E checked \in {tick_checks([Self EXCEPT !.orders = <<>>], sig, sltp)} :
         \E trade \in Answers :
             /\ signal' = sig
             /\ tick_start' = [Self EXCEPT !.orders = <<>>]
             /\ before_dispatch' = checked
             /\ Becomes(dispatch(checked, sig, trade))
    /\ UNCHANGED <<config_vars, eval_vars>>

NextSession ==
    \/ InsufficientData
    \/ RunTick
    \/ GenerateSessionReport
    \/ Sleep
    \/ WakeUp
    \/ InterruptSleep

SpecSession == Init /\ [][NextSession]_vars

(* The methods called one by one, as any caller of the class may call them *)

InitCalls ==
    /\ TESTNET \in BOOLEAN
    /\ Configured(Defaults)
    /\ position = __init__.position
    /\ entry_price = __init__.entry_price
    /\ position_size = __init__.position_size
    /\ pyramid_levels = __init__.pyramid_levels
    /\ last_pyramid_price = __init__.last_pyramid_price
    /\ local_high = __init__.local_high
    /\ local_low = __init__.local_low
    /\ session_stats = __init__.session_stats
    /\ closed_trades = __init__.closed_trades
    /\ positions_opened = __init__.positions_opened
    /\ positions_closed = __init__.positions_closed
    /\ orders = <<>>
    /\ pc = "call"
    /\ iteration = 0
    /\ signal = NoSignal
    /\ tick_start = __init__
    /\ before_dispatch = __init__
    /\ exits = 0
    /\ initial_lot = NoLot
    /\ args = NoArgs
    /\ returned = "None"

\* the bot as a call finds it
Called == Self

CanCall == pc = "call" /\ iteration < MaxCalls

Call(new) ==
    /\ Len(new.closed_trades) <= MaxTrades
    /\ iteration' = iteration + 1
    /\ Becomes([new EXCEPT !.orders = <<>>])
    /\ UNCHANGED <<config_vars, eval_vars, pc, signal, tick_start, before_dispatch>>

\* execute_trade reads signal, confidence and price only
TradeSignals == {c \in CallSignals : c.main_trend = "bullish"}
\* check_pyramid_opportunity and add_to_position read signal, main_trend and
\* price, and ask for no balance
PyramidSignals == {c \in CallSignals : c.confidence = 75}
PyramidAnswers == {a \in Answers : a.balance = 0}

CallExecuteTrade ==
    /\ CanCall
    /\ \E sig \in TradeSignals, ans \in Answers : Call(execute_trade(Called, sig, ans))

CallCheckStopLossTakeProfit ==
    /\ CanCall
    /\ \E price \in Prices, ans \in Answers :
         Call(check_stop_loss_take_profit(Called, price, ans))

\* add_to_position, called as run calls it: after check_pyramid_opportunity
CallAddToPosition ==
    /\ CanCall
    /\ \E sig \in PyramidSignals, ans \in PyramidAnswers :
         /\ check_pyramid_opportunity(Called, sig.price, sig)
         /\ Call(add_to_position(Called, sig, ans))

NextCalls ==
    \/ CallExecuteTrade
    \/ CallCheckStopLossTakeProfit
    \/ CallAddToPosition

SpecCalls == InitCalls /\ [][NextCalls]_vars

(* The same calls under other configurations: TRADE_AMOUNT and              *)
(* MAX_POSITION_SIZE are read from the environment when config.py is        *)
(* imported                                                                  *)

\* the defaults; a TRADE_AMOUNT of which four lots exceed MAX_POSITION_SIZE;
\* a TRADE_AMOUNT above MAX_POSITION_SIZE
Configurations ==
    {Defaults,
     [TRADE_AMOUNT |-> 3, MAX_POSITION_SIZE |-> 10],
     [TRADE_AMOUNT |-> 2, MAX_POSITION_SIZE |-> 1]}

InitConfig ==
    /\ TESTNET \in BOOLEAN
    /\ \E c \in Configurations : Configured(c)
    /\ position = __init__.position
    /\ entry_price = __init__.entry_price
    /\ position_size = __init__.position_size
    /\ pyramid_levels = __init__.pyramid_levels
    /\ last_pyramid_price = __init__.last_pyramid_price
    /\ local_high = __init__.local_high
    /\ local_low = __init__.local_low
    /\ session_stats = __init__.session_stats
    /\ closed_trades = __init__.closed_trades
    /\ positions_opened = __init__.positions_opened
    /\ positions_closed = __init__.positions_closed
    /\ orders = <<>>
    /\ pc = "call"
    /\ iteration = 0
    /\ signal = NoSignal
    /\ tick_start = __init__
    /\ before_dispatch = __init__
    /\ exits = 0
    /\ initial_lot = NoLot
    /\ args = NoArgs
    /\ returned = "None"

SpecConfig == InitConfig /\ [][NextCalls]_vars

(* The closes of execute_trade and check_stop_loss_take_profit, statement   *)
(* by statement: a call runs up to its next call of the exchange             *)
(* (get_balance, place_order), where it waits for the answer and where       *)
(* KeyboardInterrupt, which neither method catches, ends run.                *)

InitSteps ==
    /\ TESTNET \in BOOLEAN
    /\ Configured(Defaults)
    /\ position = __init__.position
    /\ entry_price = __init__.entry_price
    /\ position_size = __init__.position_size
    /\ pyramid_levels = __init__.pyramid_levels
    /\ last_pyramid_price = __init__.last_pyramid_price
    /\ local_high = __init__.local_high
    /\ local_low = __init__.local_low
    /\ session_stats = __init__.session_stats
    /\ closed_trades = __init__.closed_trades
    /\ positions_opened = __init__.positions_opened
    /\ positions_closed = __init__.positions_closed
    /\ orders = <<>>
    /\ pc = "idle"
    /\ iteration = 0
    /\ signal = NoSignal
    /\ tick_start = __init__
    /\ before_dispatch = __init__
    /\ exits = 0
    /\ initial_lot = NoLot
    /\ args = NoArgs
    /\ returned = "None"

CanStep == pc = "idle" /\ iteration < MaxCalls
StrongSignals == {c \in TradeSignals : c.signal # "HOLD" /\ c.confidence >= min_confidence}

\* execute_trade with no position open, as one step
StepOpen ==
    /\ CanStep /\ position = "none"
    /\ iteration' = iteration + 1
    /\ \E sig \in StrongSignals, ans \in Answers :
         Becomes([execute_trade(Self, sig, ans) EXCEPT !.orders = <<>>])
    /\ UNCHANGED <<config_vars, eval_vars, pc, signal, tick_start, before_dispatch>>

\* the call method(price) has reached the call of the exchange named by at
Waits(method, price, at, new) ==
    /\ iteration' = iteration + 1
    /\ tick_start' = [Self EXCEPT !.orders = <<>>]
    /\ Becomes([new EXCEPT !.orders = <<>>])
    /\ args' = [method |-> method, price |-> price]
    /\ pc' = at
    /\ UNCHANGED <<config_vars, signal, before_dispatch, returned>>

\* execute_trade, lines 233-259: a BUY signal finds a SHORT; the entry is
\* appended and place_order is called
BeginCloseShort ==
    /\ CanStep /\ position = "short" /\ Len(closed_trades) <= MaxTrades
    /\ \E sig \in {c \in StrongSignals : c.signal = "BUY"} :
         Waits("execute_trade", sig.price, "place_order",
               IF FGt(entry_price, Num(0)) /\ position_size > 0
               THEN track_closed_trade(Self, "CLOSE_SHORT", sig.price,
                                       short_pnl_percent(Self, sig.price),
                                       short_pnl_usdt(Self, sig.price))
               ELSE Self)

\* execute_trade, lines 286-311: a SELL signal finds a LONG; the entry is
\* appended and get_balance is called
BeginCloseLong ==
    /\ CanStep /\ position = "long" /\ Len(closed_trades) <= MaxTrades
    /\ \E sig \in {c \in StrongSignals : c.signal = "SELL"} :
         Waits("execute_trade", sig.price, "get_balance",
               IF FGt(entry_price, Num(0)) /\ position_size > 0
               THEN track_closed_trade(Self, "CLOSE_LONG", sig.price,
                                       long_pnl_percent(Self, sig.price),
                                       long_pnl_usdt(Self, sig.price))
               ELSE Self)

\* check_stop_loss_take_profit, lines 526-555, 559-573, 577-594 and 598-612:
\* the stop loss or the take profit is due; the entry is appended and
\* get_balance (LONG) or place_order (SHORT) is called
BeginForcedClose ==
    /\ CanStep /\ position # "none" /\ entry_price # Num(0)
    /\ Len(closed_trades) <= MaxTrades
    /\ \E current_price \in Prices :
         LET pnl_percent == IF position = "long" THEN long_pnl_percent(Self, current_price)
                            ELSE short_pnl_percent(Self, current_price)
             pnl_usdt == IF position = "long" THEN long_pnl_usdt(Self, current_price)
                         ELSE short_pnl_usdt(Self, current_price)
             kind == IF FLe(pnl_percent, Num(-STOP_LOSS_PERCENT)) THEN "STOP_LOSS"
                     ELSE "TAKE_PROFIT"
             side == IF position = "long" THEN "_LONG" ELSE "_SHORT"
         IN  /\ \/ FLe(pnl_percent, Num(-STOP_LOSS_PERCENT))
                \/ FGe(pnl_percent, Num(TAKE_PROFIT_PERCENT))
             /\ Waits("check_stop_loss_take_profit", current_price,
                      IF position = "long" THEN "get_balance" ELSE "place_order",
                      track_closed_trade(Self, kind \o side, current_price,
                                         pnl_percent, pnl_usdt))

\* lines 311-312, 555-556 and 594-595: get_balance('BTC') returns; with no
\* balance the call is over
GetBalance ==
    /\ pc = "get_balance"
    /\ \E btc_balance \in Balances :
         /\ returned' = btc_balance
         /\ pc' = IF btc_balance > 0 THEN "place_order" ELSE "idle"
    /\ UNCHANGED <<config_vars, bot_vars, iteration, signal, tick_start, before_dispatch,
                   exits, initial_lot, args>>

\* lines 259-261, 313-315, 557-558, 573-574, 596-597 and 612-613: place_order
\* returns; execute_trade resets the position if the order was placed,
\* check_stop_loss_take_profit resets it in any case
PlaceOrder ==
    /\ pc = "place_order"
    /\ \E ok \in BOOLEAN :
         LET trade_amount == IF position_size > 0 THEN position_size ELSE TRADE_AMOUNT
             ordered == IF position = "long" THEN place_order(Self, "sell", returned, ok)
                        ELSE place_order(Self, "buy", trade_amount, ok)
         IN  Becomes(IF args.method = "execute_trade" /\ ~order_filled(ok) THEN ordered
                     ELSE reset_position_tracking(ordered))
    /\ pc' = "idle"
    /\ UNCHANGED <<config_vars, eval_vars, iteration, signal, tick_start, before_dispatch>>

\* KeyboardInterrupt arrives while get_balance or create_market_order waits
\* for the exchange (the testnet place_order does not call it); the handler of
\* run, line 963, logs it and run returns
Interrupt ==
    /\ pc = "get_balance" \/ (pc = "place_order" /\ ~TESTNET)
    /\ pc' = "interrupted"
    /\ UNCHANGED <<config_vars, eval_vars, bot_vars, iteration, signal, tick_start,
                   before_dispatch, exits, initial_lot>>

NextSteps ==
    \/ StepOpen
    \/ BeginCloseShort
    \/ BeginCloseLong
    \/ BeginForcedClose
    \/ GetBalance
    \/ PlaceOrder
    \/ Interrupt

SpecSteps == InitSteps /\ [][NextSteps]_vars

(* Lines 929-948 of run, statement by statement, on the signal dicts a      *)
(* caller may hand to the bot's methods: the dicts generate_signal returns   *)
(* and dicts with the upper-case trend names and the top-level obv_trend     *)
(* that update_local_extremes, check_pyramid_opportunity and                 *)
(* check_contrarian_entry look for. The signal statistics are left out.      *)

\* prices 3 % apart: no stop loss and no take profit between neighbours, a
\* pyramid step and a pullback or bounce of more than 1 %
EntryPrices == {100, 103, 106}
\* frames with a main trend of 1 % (bullish, OBV above its mean) and of -1 %
\* (bearish, OBV below its mean)
EntryFrames ==
    {r \in Rows : /\ r.close \in EntryPrices
                  /\ r.close_5 = 103 /\ r.obv_5 = -2 /\ r.volume = 20 /\ r.volume_prev = 5
                  /\ r.ma_10 = Num(100)
                  /\ <<r.ma_30.n, r.ma_60.n, r.obv>> \in {<<101, 100, 1>>, <<100, 101, -1>>}}
EntryKeys == BotKeys \cup {"obv_analysis"}
GeneratedSignals == {[k \in EntryKeys |-> generate_signal(row)[k]] : row \in EntryFrames}
UpperCaseSignals ==
    {c \in [signal : {"BUY", "SELL", "HOLD"}, confidence : {75}, price : EntryPrices,
            trend : {"neutral"}, main_trend : {"BULLISH", "BEARISH"},
            obv_trend : {"bullish", "bearish"}] :
        c.main_trend = "BEARISH" => c.obv_trend = "bearish"}
EntrySignals == GeneratedSignals \cup UpperCaseSignals

\* what the running tick has evaluated and called so far
NoChecks == [pyramid |-> "None", contrarian |-> "None", ran |-> <<>>]

InitEntries ==
    /\ TESTNET \in BOOLEAN
    /\ Configured(Defaults)
    /\ position = __init__.position
    /\ entry_price = __init__.entry_price
    /\ position_size = __init__.position_size
    /\ pyramid_levels = __init__.pyramid_levels
    /\ last_pyramid_price = __init__.last_pyramid_price
    /\ local_high = __init__.local_high
    /\ local_low = __init__.local_low
    /\ session_stats = __init__.session_stats
    /\ closed_trades = __init__.closed_trades
    /\ positions_opened = __init__.positions_opened
    /\ positions_closed = __init__.positions_closed
    /\ orders = <<>>
    /\ pc = "tick"
    /\ iteration = 0
    /\ signal = NoSignal
    /\ tick_start = __init__
    /\ before_dispatch = __init__
    /\ exits = 0
    /\ initial_lot = NoLot
    /\ args = NoArgs
    /\ returned = NoChecks

\* lines 929-935: update_local_extremes and check_stop_loss_take_profit
TickChecks ==
    /\ pc = "tick" /\ iteration < MaxIterations
    /\ iteration' = iteration + 1
    /\ pc' = "check_pyramid"
    /\ returned' = NoChecks
    /\ \E sig \in EntrySignals, ans \in Answers :
         LET start == [Self EXCEPT !.orders = <<>>]
             new == check_stop_loss_take_profit(
                        update_local_extremes(start, sig.price, sig), sig.price, ans)
         IN  /\ signal' = sig
             /\ tick_start' = start
             /\ before_dispatch' = new
             /\ Becomes(new)
    /\ UNCHANGED <<config_vars, args>>

\* line 938: if self.check_pyramid_opportunity(signal['price'], signal)
CheckPyramidOpportunity ==
    /\ pc = "check_pyramid"
    /\ LET found == check_pyramid_opportunity(Self, signal.price, signal)
       IN  /\ returned' = [returned EXCEPT !.pyramid = found]
           /\ pc' = IF found THEN "add_to_position" ELSE "check_contrarian"
    /\ UNCHANGED <<config_vars, bot_vars, iteration, signal, tick_start, before_dispatch,
                   exits, initial_lot, args>>

\* line 939
AddToPosition ==
    /\ pc = "add_to_position"
    /\ \E ans \in PyramidAnswers : Becomes(add_to_position(Self, signal, ans))
    /\ returned' = [returned EXCEPT !.ran = Append(@, "add_to_position")]
    /\ pc' = "tick"
    /\ UNCHANGED <<config_vars, iteration, signal, tick_start, before_dispatch, args>>

\* line 942: elif self.check_contrarian_entry(signal['price'], signal)
CheckContrarianEntry ==
    /\ pc = "check_contrarian"
    /\ LET found == check_contrarian_entry(Self, signal.price, signal)
       IN  /\ returned' = [returned EXCEPT !.contrarian = found]
           /\ pc' = IF found THEN "contrarian_trade" ELSE "normal_trade"
    /\ UNCHANGED <<config_vars, bot_vars, iteration, signal, tick_start, before_dispatch,
                   exits, initial_lot, args>>

\* mutant: the contrarian branch trades in the direction of the opportunity
ContrarianTrade_forced ==
    /\ pc = "contrarian_trade"
    /\ \E ans \in Answers :
         Becomes(execute_trade(Self, [signal EXCEPT !.signal = IF signal.main_trend = "BULLISH"
                                                               THEN "BUY" ELSE "SELL"], ans))
    /\ returned' = [returned EXCEPT !.ran = Append(@, "contrarian")]
    /\ pc' = "tick"
    /\ UNCHANGED <<config_vars, iteration, signal, tick_start, before_dispatch, args>>

\* line 944: the contrarian branch
ContrarianTrade ==
    /\ pc = "contrarian_trade"
    /\ \E ans \in Answers : Becomes(execute_trade(Self, signal, ans))
    /\ returned' = [returned EXCEPT !.ran = Append(@, "contrarian")]
    /\ pc' = "tick"
    /\ UNCHANGED <<config_vars, iteration, signal, tick_start, before_dispatch, args>>

\* line 948: the else branch
NormalTrade ==
    /\ pc = "normal_trade"
    /\ \E ans \in Answers : Becomes(execute_trade(Self, signal, ans))
    /\ returned' = [returned EXCEPT !.ran = Append(@, "normal")]
    /\ pc' = "tick"
    /\ UNCHANGED <<config_vars, iteration, signal, tick_start, before_dispatch, args>>

NextEntries ==
    \/ TickChecks
    \/ CheckPyramidOpportunity
    \/ AddToPosition
    \/ CheckContrarianEntry
    \/ ContrarianTrade
    \/ NormalTrade

SpecEntries == InitEntries /\ [][NextEntries]_vars

(* The static methods of PriceActionAnalyzer, each evaluated on a frame.     *)

\* frames of 60 candles: the moving averages 0.5 % and 2 % around 200 put the
\* spread (ma_30 - ma_60) / ma_60 on, between and beyond the limits of
\* detect_main_trend; volume 15 is 1.5 times volume_sma
SpreadValues == {Num(196), Num(199), Num(200), Num(201), Num(204)}
FullFrames ==
    [len : {60}, close : {195, 198, 200, 205}, close_5 : {197, 203},
     ma_10 : {Num(196), Num(200), Num(204)}, ma_30 : SpreadValues, ma_60 : SpreadValues,
     obv : {-1, 0, 1}, obv_ma : {Num(0)}, obv_5 : {-2, 0},
     volume : {10, 15, 20}, volume_prev : {12, 20}, volume_sma : {Num(10)}]

\* frames of fewer than 60 candles; the analyzer returns before it reads the
\* columns that are undefined at these lengths
ShortLengths == {1, 19, 59}
ShortFrames ==
    {[f EXCEPT !.len = n] :
        f \in {g \in FullFrames : g.ma_10 = Num(200) /\ g.close_5 = 197 /\ g.obv_5 = -2
                                  /\ g.volume = 20 /\ g.volume_prev = 12},
        n \in ShortLengths}

Frames == FullFrames \cup ShortFrames

InitAnalyzer ==
    /\ TESTNET \in BOOLEAN
    /\ Configured(Defaults)
    /\ position = __init__.position
    /\ entry_price = __init__.entry_price
    /\ position_size = __init__.position_size
    /\ pyramid_levels = __init__.pyramid_levels
    /\ last_pyramid_price = __init__.last_pyramid_price
    /\ local_high = __init__.local_high
    /\ local_low = __init__.local_low
    /\ session_stats = __init__.session_stats
    /\ closed_trades = __init__.closed_trades
    /\ positions_opened = __init__.positions_opened
    /\ positions_closed = __init__.positions_closed
    /\ orders = <<>>
    /\ pc = "evaluate"
    /\ iteration = 0
    /\ signal = NoSignal
    /\ tick_start = __init__
    /\ before_dispatch = __init__
    /\ exits = 0
    /\ initial_lot = NoLot
    /\ args \in Frames
    /\ returned = "None"

Returns(method, value) ==
    /\ pc = "evaluate"
    /\ pc' = "returned"
    /\ returned' = [method |-> method, value |-> value]
    /\ UNCHANGED <<config_vars, bot_vars, iteration, signal, tick_start, before_dispatch,
                   exits, initial_lot, args>>

EvalDetectTrend == Returns("detect_trend", detect_trend(args))

EvalDetectMainTrend == Returns("detect_main_trend", detect_main_trend(args))

\* volume_sma exists from the 20th candle on
EvalAnalyzeVolume ==
    /\ args.len < 2 \/ args.len >= 20
    /\ Returns("analyze_volume", analyze_volume(args))

EvalAnalyzeObv == Returns("analyze_obv", analyze_obv(args))

EvalGenerateSignal == Returns("generate_signal", generate_signal(args))

\* one iteration of run on the frame, from the bot as constructed: with no
\* position open check_stop_loss_take_profit asks the exchange nothing
EvalRunTick ==
    /\ pc = "evaluate"
    /\ pc' = "returned"
    /\ returned' = [method |-> "run", value |-> "None"]
    /\ \E trade \in Answers : Becomes(tick(Self, args, NoAnswer, trade))
    /\ UNCHANGED <<config_vars, iteration, signal, tick_start, before_dispatch, args>>

NextAnalyzer ==
    \/ EvalDetectTrend
    \/ EvalDetectMainTrend
    \/ EvalAnalyzeVolume
    \/ EvalAnalyzeObv
    \/ EvalGenerateSignal
    \/ EvalRunTick

SpecAnalyzer == InitAnalyzer /\ [][NextAnalyzer]_vars

(* TechnicalIndicators on a window of candles, and analyze_obv and          *)
(* analyze_volume on the frame add_all_indicators makes of it. A column is   *)
(* a sequence, its index 1..len standing for the index of the DataFrame.     *)
MA_SHORT == 10
MA_MEDIUM == 30
MA_LONG == 60

RECURSIVE Sum(_)
Sum(column) == IF column = <<>> THEN 0 ELSE Head(column) + Sum(Tail(column))

\* column.iloc[i] for a negative i: -1 is the last row
iloc(column, i) == column[Len(column) + 1 + i]

\* column.rolling(window).mean(): NaN until the window is full
rolling_mean(column, window) ==
    [i \in 1..Len(column) |->
        IF i < window THEN NaN ELSE Frac(Sum(SubSeq(column, i - window + 1, i)), window)]

calculate_ma(data, period) == rolling_mean(data.close, period)

\* mutant: the volume of the candle before is added
obv_next_volume_before(data, obv, i) ==
    IF data.close[i] > data.close[i - 1] THEN obv[Len(obv)] + data.volume[i - 1]
    ELSE IF data.close[i] < data.close[i - 1] THEN obv[Len(obv)] - data.volume[i - 1]
    ELSE obv[Len(obv)]

\* lines 39-44: the value appended for row i (i - 1 in the code, which counts from 0)
obv_next(data, obv, i) ==
    IF data.close[i] > data.close[i - 1] THEN obv[Len(obv)] + data.volume[i]
    ELSE IF data.close[i] < data.close[i - 1] THEN obv[Len(obv)] - data.volume[i]
    ELSE obv[Len(obv)]

RECURSIVE obv_loop(_, _, _)
obv_loop(data, obv, i) ==
    IF i > Len(data.close) THEN obv
    ELSE obv_loop(data, Append(obv, obv_next(data, obv, i)), i + 1)

\* for at least one candle; pd.Series raises ValueError for the list [0] and
\* the index of an empty frame
calculate_obv(data) == obv_loop(data, <<0>>, 2)

calculate_volume_sma(data, period) == rolling_mean(data.volume, period)

add_all_indicators(data) ==
    LET obv == calculate_obv(data)
        volume_sma == calculate_volume_sma(data, 20)
    IN  [close |-> data.close, volume |-> data.volume,
         ma_10 |-> calculate_ma(data, MA_SHORT),
         ma_30 |-> calculate_ma(data, MA_MEDIUM),
         ma_60 |-> calculate_ma(data, MA_LONG),
         obv |-> obv,
         obv_ma |-> rolling_mean(obv, 20),
         volume_sma |-> volume_sma,
         volume_ratio |-> [i \in 1..Len(data.close) |->
                              FloatDiv(Num(data.volume[i]), volume_sma[i])]]

\* IndexError: the row does not exist (the analyzer returns before it reads it)
Row(column, i) == IF Len(column) + 1 + i >= 1 THEN iloc(column, i) ELSE "IndexError"

\* what PriceActionAnalyzer reads of a frame df: len(data), last_row =
\* data.iloc[-1], prev_row = data.iloc[-2] and the rows data[...].iloc[-5]
Frame(df) ==
    [len |-> Len(df.close),
     close |-> Row(df.close, -1), close_5 |-> Row(df.close, -5),
     ma_10 |-> Row(df.ma_10, -1), ma_30 |-> Row(df.ma_30, -1), ma_60 |-> Row(df.ma_60, -1),
     obv |-> Row(df.obv, -1), obv_ma |-> Row(df.obv_ma, -1), obv_5 |-> Row(df.obv, -5),
     volume |-> Row(df.volume, -1), volume_prev |-> Row(df.volume, -2),
     volume_sma |-> Row(df.volume_sma, -1)]

\* windows of candles: WindowLengths candles, the last MaxTail of them (fewer in a
\* shorter window) drawn from Candles, and the ones before all equal to one
\* candle of BaseCandles
Candles == {[close |-> 100, volume |-> 0], [close |-> 100, volume |-> 3],
            [close |-> 101, volume |-> 3]}
BaseCandles == {[close |-> 100, volume |-> 0], [close |-> 100, volume |-> 3]}
WindowLengths == {1, 2, 3, 19, 20, 21}
Window(n, base, tail) ==
    LET first == n - Len(tail)
        candle(i) == IF i <= first THEN base ELSE tail[i - first]
    IN  [close |-> [i \in 1..n |-> candle(i).close],
         volume |-> [i \in 1..n |-> candle(i).volume]]
Windows ==
    UNION {{Window(n, base, tail) :
               base \in BaseCandles, tail \in [1..Min(n, MaxTail) -> Candles]} :
           n \in WindowLengths}

InitIndicators ==
    /\ TESTNET \in BOOLEAN
    /\ Configured(Defaults)
    /\ position = __init__.position
    /\ entry_price = __init__.entry_price
    /\ position_size = __init__.position_size
    /\ pyramid_levels = __init__.pyramid_levels
    /\ last_pyramid_price = __init__.last_pyramid_price
    /\ local_high = __init__.local_high
    /\ local_low = __init__.local_low
    /\ session_stats = __init__.session_stats
    /\ closed_trades = __init__.closed_trades
    /\ positions_opened = __init__.positions_opened
    /\ positions_closed = __init__.positions_closed
    /\ orders = <<>>
    /\ pc = "evaluate"
    /\ iteration = 0
    /\ signal = NoSignal
    /\ tick_start = __init__
    /\ before_dispatch = __init__
    /\ exits = 0
    /\ initial_lot = NoLot
    /\ args \in Windows
    /\ returned = "None"

CalculateObv == Returns("calculate_obv", calculate_obv(args))

CalculateVolumeSma == Returns("calculate_volume_sma", calculate_volume_sma(args, 20))

\* add_all_indicators, then analyze_obv on the frame
AnalyzeObv == Returns("analyze_obv", analyze_obv(Frame(add_all_indicators(args))))

\* add_all_indicators, then analyze_volume on the frame
AnalyzeVolume == Returns("analyze_volume", analyze_volume(Frame(add_all_indicators(args))))

NextIndicators ==
    \/ CalculateObv
    \/ CalculateVolumeSma
    \/ AnalyzeObv
    \/ AnalyzeVolume

SpecIndicators == InitIndicators /\ [][NextIndicators]_vars

(* backtest_strategy next to the live loop: both are fed the same frames,   *)
(* the exchange fills every live order and reports a sufficient balance     *)

\* lines 92-96: the locals of backtest_strategy before its loop
backtest_locals ==
    [position |-> "None", entry_price |-> Num(0), position_size |-> 0,
     trades |-> <<>>, signals_log |-> <<>>]

\* an OPEN_* and a closing entry of trades, without their time stamps
backtest_open(type, bt, sig) ==
    [type |-> type, entry_price |-> bt.entry_price, position_size |-> bt.position_size,
     confidence |-> sig.confidence]

backtest_close(type, bt, sig, pnl_percent) ==
    [type |-> type, entry_price |-> bt.entry_price, exit_price |-> sig.price,
     position_size |-> bt.position_size, pnl_percent |-> pnl_percent,
     pnl_usdt |-> IF bt.position = "LONG"
                  THEN FMul(Num(bt.position_size), FSub(Num(sig.price), bt.entry_price))
                  ELSE FMul(Num(bt.position_size), FSub(bt.entry_price, Num(sig.price)))]

backtest_pnl_percent(bt, sig) ==
    IF bt.position = "LONG"
    THEN FMul(FDiv(FSub(Num(sig.price), bt.entry_price), bt.entry_price), Num(100))
    ELSE FMul(FDiv(FSub(bt.entry_price, Num(sig.price)), bt.entry_price), Num(100))

backtest_closed(type, bt, sig) ==
    [bt EXCEPT !.trades = Append(@, backtest_close(type, bt, sig, backtest_pnl_percent(bt, sig))),
               !.position = "None"]

backtest_opened(side, bt, sig) ==
    LET entered == [bt EXCEPT !.entry_price = Num(sig.price),
                              !.position_size = TRADE_AMOUNT, !.position = side]
    IN  [entered EXCEPT !.trades = Append(@, backtest_open("OPEN_" \o side, entered, sig))]

\* lines 117-173: the trade on the signal
backtest_trade(bt, sig) ==
    IF sig.signal = "BUY" /\ sig.confidence >= 60
    THEN LET closed == IF bt.position = "SHORT" THEN backtest_closed("CLOSE_SHORT", bt, sig)
                       ELSE bt
         IN  IF closed.position = "None" THEN backtest_opened("LONG", closed, sig) ELSE closed
    ELSE IF sig.signal = "SELL" /\ sig.confidence >= 60
    THEN LET closed == IF bt.position = "LONG" THEN backtest_closed("CLOSE_LONG", bt, sig)
                       ELSE bt
         IN  IF closed.position = "None" THEN backtest_opened("SHORT", closed, sig) ELSE closed
    ELSE bt

\* lines 175-228: stop loss and take profit, checked after the trade
backtest_stops(bt, sig) ==
    IF bt.position = "None" THEN bt
    ELSE IF FLe(backtest_pnl_percent(bt, sig), Num(-STOP_LOSS_PERCENT))
    THEN backtest_closed("STOP_LOSS_" \o bt.position, bt, sig)
    ELSE IF FGe(backtest_pnl_percent(bt, sig), Num(TAKE_PROFIT_PERCENT))
    THEN backtest_closed("TAKE_PROFIT_" \o bt.position, bt, sig)
    ELSE bt

\* lines 99-228: one pass of the loop on the signal of the frame
backtest_tick(bt, sig) ==
    LET logged == [bt EXCEPT !.signals_log =
                      Append(@, [price |-> sig.price, signal |-> sig.signal,
                                 confidence |-> sig.confidence, trend |-> sig.trend,
                                 position |-> bt.position])]
    IN  backtest_stops(backtest_trade(logged, sig), sig)

\* the exchange fills the order and the balance covers it
Sufficient == [balance |-> 1000, ok |-> TRUE]

InitBacktest ==
    /\ TESTNET \in BOOLEAN
    /\ Configured(Defaults)
    /\ position = __init__.position
    /\ entry_price = __init__.entry_price
    /\ position_size = __init__.position_size
    /\ pyramid_levels = __init__.pyramid_levels
    /\ last_pyramid_price = __init__.last_pyramid_price
    /\ local_high = __init__.local_high
    /\ local_low = __init__.local_low
    /\ session_stats = __init__.session_stats
    /\ closed_trades = __init__.closed_trades
    /\ positions_opened = __init__.positions_opened
    /\ positions_closed = __init__.positions_closed
    /\ orders = <<>>
    /\ pc = "replay"
    /\ iteration = 0
    /\ signal = NoSignal
    /\ tick_start = __init__
    /\ before_dispatch = __init__
    /\ exits = 0
    /\ initial_lot = NoLot
    /\ args = backtest_locals
    /\ returned = "None"

\* the next frame goes through one iteration of run and one pass of the
\* backtest loop; args holds the locals of backtest_strategy
ReplayTick ==
    /\ pc = "replay" /\ iteration < MaxIterations
    /\ iteration' = iteration + 1
    /\ \E data \in SessionFrames :
         LET start == [Self EXCEPT !.orders = <<>>]
             sig == BotView(generate_signal(data))
         IN  /\ signal' = sig
             /\ tick_start' = start
             /\ before_dispatch' = tick_checks(start, sig, Sufficient)
             /\ Becomes(tick(start, data, Sufficient, Sufficient))
             /\ args' = backtest_tick(args, generate_signal(data))
    /\ UNCHANGED <<config_vars, pc, returned>>

\* lines 230-234: the loop is over and backtest_strategy returns
BacktestReturns ==
    /\ pc = "replay"
    /\ pc' = "returned"
    /\ returned' = [trades |-> args.trades, signals |-> args.signals_log,
                    final_position |-> args.position]
    /\ UNCHANGED <<config_vars, bot_vars, iteration, signal, tick_start, before_dispatch,
                   exits, initial_lot, args>>

NextBacktest ==
    \/ ReplayTick
    \/ BacktestReturns

SpecBacktest == InitBacktest /\ [][NextBacktest]_vars

(* A long session: run over a market that repeats two candles frames, the   *)
(* exchange answering each of the two the same way every time                *)

\* the exchange refuses everything, or fills every order from a sufficient
\* balance
Refusal == NoAnswer
MarketTicks == [data : SessionFrames, sltp : {Refusal, Sufficient}, trade : {Refusal, Sufficient}]
\* args holds the market: the frame fetched and the answers given on odd and
\* on even iterations
Markets == [1..2 -> MarketTicks]
Fetched(market, i) == market[((i - 1) % 2) + 1]

InitLongSession ==
    /\ TESTNET \in BOOLEAN
    /\ Configured(Defaults)
    /\ position = __init__.position
    /\ entry_price = __init__.entry_price
    /\ position_size = __init__.position_size
    /\ pyramid_levels = __init__.pyramid_levels
    /\ last_pyramid_price = __init__.last_pyramid_price
    /\ local_high = __init__.local_high
    /\ local_low = __init__.local_low
    /\ session_stats = __init__.session_stats
    /\ closed_trades = __init__.closed_trades
    /\ positions_opened = __init__.positions_opened
    /\ positions_closed = __init__.positions_closed
    /\ orders = <<>>
    /\ pc = "fetch"
    /\ iteration = 0
    /\ signal = NoSignal
    /\ tick_start = __init__
    /\ before_dispatch = __init__
    /\ exits = 0
    /\ initial_lot = NoLot
    /\ args \in Markets
    /\ returned = "None"

\* lines 909-948: iteration number iteration + 1 of run
LongSessionTick ==
    /\ pc = "fetch" /\ iteration < MaxTicks
    /\ iteration' = iteration + 1
    /\ LET now == Fetched(args, iteration + 1)
           start == [Self EXCEPT !.orders = <<>>]
           sig == BotView(generate_signal(now.data))
       IN  /\ signal' = sig
           /\ tick_start' = start
           /\ before_dispatch' = tick_checks(start, sig, now.sltp)
           /\ Becomes(tick(start, now.data, now.sltp, now.trade))
    /\ UNCHANGED <<config_vars, pc, eval_vars>>

NextLongSession == LongSessionTick

SpecLongSession == InitLongSession /\ [][NextLongSession]_vars

(***************************************************************************)
(* Properties                                                              *)
(***************************************************************************)
\* the profit of a position in percent, as section 4.5 defines it
PnlPercent(b, price) ==
    IF b.position = "long"
    THEN Frac((price * b.entry_price.d - b.entry_price.n) * 100, b.entry_price.n)
    ELSE Frac((b.entry_price.n - price * b.entry_price.d) * 100, b.entry_price.n)

Open(b) == b.position # "none" /\ b.entry_price.n > 0
StopLossDue(b, price) == Open(b) /\ FLe(PnlPercent(b, price), Num(-STOP_LOSS_PERCENT))
TakeProfitDue(b, price) ==
    Open(b) /\ ~StopLossDue(b, price) /\ FGe(PnlPercent(b, price), Num(TAKE_PROFIT_PERCENT))
Side(b) == IF b.position = "long" THEN "LONG" ELSE "SHORT"
Reset(b) ==
    /\ b.position = "none" /\ b.entry_price = Num(0) /\ b.position_size = 0
    /\ b.pyramid_levels = <<>> /\ b.last_pyramid_price = Num(0)
\* the ledger entries that b has and a has not
Appended(a, b) == SubSeq(b.closed_trades, Len(a.closed_trades) + 1, Len(b.closed_trades))
ForcedClose(a, b, kind, price) ==
    /\ Reset(b)
    /\ Len(Appended(a, b)) = 1
    /\ Appended(a, b)[1].type = kind \o "_" \o Side(a)
    /\ Appended(a, b)[1].exit_price = price
    /\ Appended(a, b)[1].pnl_percent = PnlPercent(a, price)
PositionOf(b) ==
    <<b.position, b.entry_price, b.position_size, b.pyramid_levels, b.last_pyramid_price>>

\* C1: a tick that finds an open position at or beyond its stop loss (take
\* profit) force-closes it in check_stop_loss_take_profit: one STOP_LOSS_*
\* (TAKE_PROFIT_*) entry with the tick's price and pnl_percent, position reset,
\* whatever balance the exchange reports.
C1_ForcedCloseAlways ==
    pc = "dispatch" =>
        /\ StopLossDue(tick_start, signal.price)
             => ForcedClose(tick_start, Self, "STOP_LOSS", signal.price)
        /\ TakeProfitDue(tick_start, signal.price)
             => ForcedClose(tick_start, Self, "TAKE_PROFIT", signal.price)

OppositeSignal(b) ==
    /\ signal.signal = (IF b.position = "long" THEN "SELL" ELSE "BUY")
    /\ signal.confidence >= min_confidence

\* C2: when the stop loss of the open position and an opposite signal of
\* sufficient confidence meet in one tick, the tick records exactly one trade
\* for the position, of type STOP_LOSS_*, with the stop-loss pnl_percent.
C2_StopLossPrecedence ==
    pc = "tick_done" =>
        (StopLossDue(tick_start, signal.price) /\ OppositeSignal(tick_start)
            => /\ Len(Appended(tick_start, Self)) = 1
               /\ Appended(tick_start, Self)[1].type = "STOP_LOSS_" \o Side(tick_start)
               /\ Appended(tick_start, Self)[1].pnl_percent
                    = PnlPercent(tick_start, signal.price))

\* C3: a tick in which check_stop_loss_take_profit closed the position ends
\* with no position: the tick's signal opens nothing.
C3_ForcedCloseEndsFlat ==
    pc = "tick_done" =>
        (tick_start.position # "none" /\ before_dispatch.position = "none"
            => position = "none")

Failed(os) == \E i \in 1..Len(os) : ~os[i].filled
Retried(os) ==
    \E i, j \in 1..Len(os) : i < j /\ ~os[i].filled /\ os[j].side = os[i].side
                              /\ os[j].amount = os[i].amount

\* C4: a step of the tick whose order fails leaves position, entry_price,
\* position_size, pyramid_levels and last_pyramid_price as it found them, and
\* the failed order is not submitted again in the tick.
C4_FailedOrderIsVoid ==
    /\ pc = "dispatch" /\ Failed(orders) => PositionOf(Self) = PositionOf(tick_start)
    /\ pc = "tick_done" /\ Failed(SubSeq(orders, Len(before_dispatch.orders) + 1, Len(orders)))
         => PositionOf(Self) = PositionOf(before_dispatch)
    /\ ~Retried(orders)

\* C5: the ledger holds exactly one entry per exit: its length is the number
\* of times the position went from LONG or SHORT to None.
C5_OneEntryPerExit == Len(closed_trades) = exits

\* C6: with no position, entry_price, position_size and last_pyramid_price
\* are 0 and pyramid_levels is empty; a position that was just closed has left
\* local_high 0 and local_low infinite as well.
C6_ResetOnClose ==
    /\ position = "none" => Reset(Self)
    /\ pc \in {"dispatch", "tick_done"} /\ exits > 0 /\ position = "none"
         /\ Len(closed_trades) > Len(tick_start.closed_trades)
         => local_high = Num(0) /\ local_low = Infinity

\* C6 witness: a position has been closed and none is open
C6_Witness == position = "none" /\ exits > 0 /\ positions_opened > 0

RECURSIVE SumSizes(_)
SumSizes(levels) == IF levels = <<>> THEN 0 ELSE Head(levels).size + SumSizes(Tail(levels))
RECURSIVE SumCost(_)
SumCost(levels) ==
    IF levels = <<>> THEN 0 ELSE Head(levels).price * Head(levels).size + SumCost(Tail(levels))
Lots == <<initial_lot>> \o pyramid_levels
LotPrices == {Lots[i].price : i \in 1..Len(Lots)}

\* C7: while a position is open its size is the size of the opening lot plus
\* the sizes recorded in pyramid_levels.
C7_SizeIsSumOfLots ==
    position # "none" => position_size = initial_lot.size + SumSizes(pyramid_levels)

\* C7 witness: a position pyramided to the last level
C7_Witness == position # "none" /\ Len(pyramid_levels) = max_pyramid_levels

\* C8: once pyramided, entry_price is the size-weighted average of the
\* opening lot and the pyramid lots, each counted once, and lies between the
\* lowest and the highest lot price.
C8_EntryIsWeightedAverage ==
    position # "none" /\ pyramid_levels # <<>> =>
        /\ entry_price = Frac(SumCost(Lots), SumSizes(Lots))
        /\ \E lo, hi \in LotPrices : FLe(Num(lo), entry_price) /\ FLe(entry_price, Num(hi))

\* C9: pyramid_levels never has more than max_pyramid_levels entries, and
\* check_pyramid_opportunity refuses every signal when no position is open or
\* every level is taken.
C9_PyramidBounded ==
    /\ Len(pyramid_levels) <= max_pyramid_levels
    /\ position = "none" \/ Len(pyramid_levels) >= max_pyramid_levels
         => \A sig \in PyramidSignals : ~check_pyramid_opportunity(Self, sig.price, sig)

\* C9 witness: every level is taken
C9_Witness == Len(pyramid_levels) = max_pyramid_levels /\ position = "short"

Gain(b, price) ==
    LET ref == IF b.last_pyramid_price.n > 0 THEN b.last_pyramid_price ELSE b.entry_price
    IN  IF b.position = "long"
        THEN Frac((price * ref.d - ref.n) * 100, ref.n)
        ELSE Frac((ref.n - price * ref.d) * 100, ref.n)

PyramidDue(b) ==
    /\ b.position # "none"
    /\ Len(b.pyramid_levels) < max_pyramid_levels
    /\ FGe(Gain(b, signal.price), pyramid_step_percent)
    /\ \/ b.position = "long" /\ signal.signal = "BUY" /\ signal.main_trend = "bullish"
       \/ b.position = "short" /\ signal.signal = "SELL" /\ signal.main_trend = "bearish"

\* C10: a tick that reaches the pyramid check with an open position, a free
\* level, a gain of pyramid_step_percent over the reference price and an
\* agreeing signal whose main_trend confirms adds a lot (orders succeeding):
\* the lot is appended and last_pyramid_price is the tick's price.
C10_PyramidTriggers ==
    pc = "tick_done" /\ PyramidDue(before_dispatch) /\ ~Failed(orders) =>
        /\ pyramid_levels = Append(before_dispatch.pyramid_levels,
                                   [price |-> signal.price, size |-> TRADE_AMOUNT])
        /\ last_pyramid_price = Num(signal.price)

Evaluated(method) == pc = "returned" /\ returned.method = method

\* C11: whenever detect_main_trend is bullish or strong_bullish,
\* sell_conditions is 0 and generate_signal does not return SELL, whatever the
\* other indicators are.
C11_MainTrendVeto ==
    Evaluated("generate_signal") /\ args.len >= 60
    /\ detect_main_trend(args) \in {"bullish", "strong_bullish"}
        => sell_conditions(args) = 0 /\ returned.value.signal # "SELL"

\* C11 witness: a frame with a bullish main trend on which four SELL
\* conditions hold was scored, and the signal is HOLD
C11_Witness ==
    /\ Evaluated("generate_signal") /\ args.len >= 60
    /\ detect_main_trend(args) = "bullish"
    /\ analyze_obv(args).obv_trend = "bearish" /\ analyze_obv(args).obv_divergence
    /\ price_below_key_mas(args) /\ FLt(Num(args.close), args.ma_60)
    /\ returned.value.signal = "HOLD"

Confidence(n) == IF n * 15 > 100 THEN 100 ELSE n * 15

\* C12: on at least 60 candles, buy_conditions >= 4 gives BUY with confidence
\* min(buy_conditions * 15, 100); otherwise sell_conditions >= 4 gives SELL
\* with confidence min(sell_conditions * 15, 100); otherwise HOLD with
\* confidence 0.
C12_DecisionRule ==
    Evaluated("generate_signal") /\ args.len >= 60 =>
        LET buy == buy_conditions(args)
            sell == sell_conditions(args)
            sig == returned.value
        IN  /\ buy >= 4 => sig.signal = "BUY" /\ sig.confidence = Confidence(buy)
            /\ buy < 4 /\ sell >= 4 => sig.signal = "SELL" /\ sig.confidence = Confidence(sell)
            /\ buy < 4 /\ sell < 4 => sig.signal = "HOLD" /\ sig.confidence = 0
            /\ buy = 5 => sig.signal = "BUY" /\ sig.confidence = 75

\* C12 witness: five buy conditions gave BUY with confidence 75
C12_Witness ==
    /\ Evaluated("generate_signal") /\ args.len >= 60
    /\ buy_conditions(args) = 5
    /\ returned.value.signal = "BUY" /\ returned.value.confidence = 75

\* C13: buy_conditions >= 4 and sell_conditions >= 4 never hold for the same
\* frame, so a SELL that met its threshold is never suppressed by the BUY
\* branch.
C13_BuySellExclusive ==
    Evaluated("generate_signal") /\ args.len >= 60 =>
        /\ ~(buy_conditions(args) >= 4 /\ sell_conditions(args) >= 4)
        /\ sell_conditions(args) >= 4 => returned.value.signal = "SELL"

\* C13 witness: a frame with four sell conditions and three buy conditions
\* was scored SELL
C13_Witness ==
    /\ Evaluated("generate_signal") /\ args.len >= 60
    /\ sell_conditions(args) >= 4 /\ buy_conditions(args) = 3
    /\ returned.value.signal = "SELL"

\* C14: on fewer than 60 candles generate_signal returns HOLD with confidence
\* 0, detect_trend and detect_main_trend return neutral, and an iteration of
\* run leaves the bot as it found it.
C14_ShortFrame ==
    pc = "returned" /\ args.len < 60 =>
        /\ returned.method = "generate_signal"
             => returned.value.signal = "HOLD" /\ returned.value.confidence = 0
        /\ returned.method = "detect_trend" => returned.value = "neutral"
        /\ returned.method = "detect_main_trend" => returned.value = "neutral"
        /\ returned.method = "run" => Self = __init__

\* C14 witness: generate_signal returned for a frame of 59 candles that scores
\* BUY once it has 60
C14_Witness ==
    /\ Evaluated("generate_signal") /\ args.len = 59
    /\ scored_signal(args).signal = "BUY"

\* the ledger entries and the orders of the step that follows
\* check_stop_loss_take_profit in the running tick
Traded == Appended(before_dispatch, Self)
TradeOrders == SubSeq(orders, Len(before_dispatch.orders) + 1, Len(orders))

\* C15: a tick whose trade step finds a LONG and a SELL signal of sufficient
\* confidence (a SHORT and a BUY signal) records one CLOSE_LONG (CLOSE_SHORT)
\* entry, resets the position and ends with no position (no stop loss or take
\* profit being due and no order having failed).
C15_SignalCloseEndsFlat ==
    pc = "tick_done" /\ Open(before_dispatch) /\ OppositeSignal(before_dispatch)
    /\ before_dispatch = tick_start /\ ~Failed(TradeOrders)
        => /\ Len(Traded) = 1
           /\ Traded[1].type = "CLOSE_" \o Side(before_dispatch)
           /\ Reset(Self)

Diff(e) ==
    IF e.type \in {"CLOSE_LONG", "STOP_LOSS_LONG", "TAKE_PROFIT_LONG"}
    THEN FSub(Num(e.exit_price), e.entry_price)
    ELSE FSub(e.entry_price, Num(e.exit_price))
Sign(f) == IF f.n > 0 THEN 1 ELSE IF f.n < 0 THEN -1 ELSE 0
PnlRecorded(e) ==
    /\ e.pnl_percent = FMul(FDiv(Diff(e), e.entry_price), Num(100))
    /\ e.pnl_usdt = FMul(Num(e.position_size), Diff(e))
    /\ Sign(e.pnl_percent) = Sign(e.pnl_usdt)
\* the entries that b has and a has not are entries of a's position
Closes(a, b) ==
    \A i \in 1..Len(Appended(a, b)) :
        /\ Appended(a, b)[i].entry_price = a.entry_price
        /\ Appended(a, b)[i].position_size = a.position_size
        /\ Appended(a, b)[i].exit_price = signal.price
        /\ Appended(a, b)[i].type \in {k \o "_" \o Side(a) :
                                        k \in {"CLOSE", "STOP_LOSS", "TAKE_PROFIT"}}

\* C16: every ledger entry holds the P&L of the position it closes: for LONG
\* exits pnl_percent = (exit - entry) / entry * 100 and pnl_usdt = size * (exit
\* - entry), for SHORT exits with entry - exit, entry and size being the
\* position's entry_price and position_size when the exit starts; pnl_percent
\* and pnl_usdt have the same sign.
C16_PnlOfClosedPosition ==
    /\ \A i \in 1..Len(closed_trades) : PnlRecorded(closed_trades[i])
    /\ pc = "dispatch" => Closes(tick_start, Self)
    /\ pc = "tick_done" => Closes(before_dispatch, Self)

\* C16 witness: the ledger holds a losing SHORT exit and a winning LONG exit
C16_Witness ==
    /\ \E i \in 1..Len(closed_trades) :
         closed_trades[i].type = "STOP_LOSS_SHORT" /\ closed_trades[i].pnl_usdt.n < 0
    /\ \E i \in 1..Len(closed_trades) :
         closed_trades[i].type = "TAKE_PROFIT_LONG" /\ closed_trades[i].pnl_usdt.n > 0

Strong(sig) == sig.confidence >= min_confidence
Opened(a, b, side, price) ==
    /\ b.position = side /\ b.entry_price = Num(price) /\ b.position_size = TRADE_AMOUNT
    /\ b.positions_opened = a.positions_opened + 1
    /\ b.closed_trades = a.closed_trades
StaysFlat(a, b) == b.position = "none" /\ b.positions_opened = a.positions_opened
\* signals that execute_trade does not act on
WeakSignals == {c \in TradeSignals : c.signal = "HOLD" \/ c.confidence < min_confidence}

\* C17 as stated: from no position a BUY signal of sufficient confidence opens
\* a LONG and a SELL signal a SHORT, at the signal's price, with the base size
\* and positions_opened incremented once, whatever the exchange answers.
C17_OpensAlways ==
    pc = "dispatch" /\ position = "none" =>
        \A ans \in Answers :
            /\ signal.signal = "BUY" /\ Strong(signal)
                 => Opened(Self, dispatch(Self, signal, ans), "long", signal.price)
            /\ signal.signal = "SELL" /\ Strong(signal)
                 => Opened(Self, dispatch(Self, signal, ans), "short", signal.price)

\* C17 amended: the LONG opens when the USDT balance exceeds price * size and
\* the order is filled; the SHORT opens on the testnet without an order, and
\* otherwise when the BTC balance covers the size and the order is filled; in
\* every other case, and for HOLD or a confidence below min_confidence, there
\* is still no position and positions_opened is unchanged.
C17_OpensWhenFilled ==
    pc = "dispatch" /\ position = "none" =>
        /\ \A ans \in Answers :
             LET new == dispatch(Self, signal, ans)
                 long == signal.signal = "BUY" /\ Strong(signal)
                         /\ ans.balance > signal.price * TRADE_AMOUNT /\ order_filled(ans.ok)
                 short == signal.signal = "SELL" /\ Strong(signal)
                          /\ (TESTNET \/ (ans.balance >= TRADE_AMOUNT /\ order_filled(ans.ok)))
             IN  /\ long => Opened(Self, new, "long", signal.price)
                 /\ short => Opened(Self, new, "short", signal.price)
                 /\ ~long /\ ~short => StaysFlat(Self, new)
        /\ \A sig \in WeakSignals, ans \in Answers :
             StaysFlat(Self, execute_trade(Self, sig, ans))

\* C17 witness: the trade step of a tick opened a SHORT with a filled order
C17_Witness ==
    /\ pc = "tick_done" /\ ~TESTNET
    /\ before_dispatch.position = "none" /\ position = "short"
    /\ entry_price = Num(signal.price) /\ ~Failed(TradeOrders) /\ Len(TradeOrders) = 1

C19_ReportFailureNotFatal ==
    pc \in {"done", "crashed"} => iteration >= MaxIterations

\* C20: while a close waits for get_balance or place_order, and when it is
\* interrupted there, either the ledger entry of the close is not yet
\* appended or the position is already reset.
C20_CloseIsOneStep ==
    pc \in {"get_balance", "place_order", "interrupted"} =>
        closed_trades = tick_start.closed_trades \/ position = "none"

\* the golden-cross and death-cross alignments of section 4.2
GoldenCross(f) ==
    /\ f.ma_10.n * f.ma_30.d > f.ma_30.n * f.ma_10.d
    /\ f.ma_30.n * f.ma_60.d > f.ma_60.n * f.ma_30.d
    /\ f.close * f.ma_10.d > f.ma_10.n
DeathCross(f) ==
    /\ f.ma_10.n * f.ma_30.d < f.ma_30.n * f.ma_10.d
    /\ f.ma_30.n * f.ma_60.d < f.ma_60.n * f.ma_30.d
    /\ f.close * f.ma_10.d < f.ma_10.n
Ties(f) == f.ma_10 = f.ma_30 \/ f.ma_30 = f.ma_60 \/ Num(f.close) = f.ma_10

\* C25: on at least 60 candles detect_trend returns bullish iff
\* ma10 > ma30 > ma60 and close > ma10, bearish iff ma10 < ma30 < ma60 and
\* close < ma10, neutral otherwise; the two alignments exclude each other and
\* two equal compared values give neutral.
C25_DetectTrend ==
    Evaluated("detect_trend") /\ args.len >= 60 =>
        /\ returned.value = "bullish" <=> GoldenCross(args)
        /\ returned.value = "bearish" <=> DeathCross(args)
        /\ returned.value = "neutral" <=> ~GoldenCross(args) /\ ~DeathCross(args)
        /\ ~(GoldenCross(args) /\ DeathCross(args))
        /\ Ties(args) => returned.value = "neutral"

\* C25 witness: ma10 = ma30 > ma60 with close above ma10 was found neutral
C25_Witness ==
    /\ Evaluated("detect_trend") /\ args.len >= 60
    /\ args.ma_10 = args.ma_30 /\ FGt(args.ma_30, args.ma_60)
    /\ FGt(Num(args.close), args.ma_10)
    /\ returned.value = "neutral"

\* d = (ma30 - ma60) / ma60 * 100, for a positive ma60
Spread(f) ==
    Frac((f.ma_30.n * f.ma_60.d - f.ma_60.n * f.ma_30.d) * 100, f.ma_30.d * f.ma_60.n)
Within(lo, d, hi) == FLe(lo, d) /\ FLe(d, hi)

\* C26: detect_main_trend puts the spread d in exactly one class: d > 2
\* strong_bullish, 0.5 < d <= 2 bullish, d < -2 strong_bearish,
\* -2 <= d < -0.5 bearish, -0.5 <= d <= 0.5 neutral.
C26_MainTrendClasses ==
    Evaluated("detect_main_trend") /\ args.len >= 60 =>
        LET d == Spread(args)
        IN  /\ returned.value = "strong_bullish" <=> FGt(d, Num(2))
            /\ returned.value = "bullish" <=> FGt(d, Frac(1, 2)) /\ FLe(d, Num(2))
            /\ returned.value = "strong_bearish" <=> FLt(d, Num(-2))
            /\ returned.value = "bearish" <=> FGe(d, Num(-2)) /\ FLt(d, Frac(-1, 2))
            /\ returned.value = "neutral" <=> Within(Frac(-1, 2), d, Frac(1, 2))

\* C26 witness: a spread of exactly 2 was classified bullish
C26_Witness ==
    /\ Evaluated("detect_main_trend") /\ args.len >= 60
    /\ Spread(args) = Num(2) /\ returned.value = "bullish"

Sgn(i) == IF i > 0 THEN 1 ELSE IF i < 0 THEN -1 ELSE 0

\* C24: calculate_obv returns a series with the index of its input, obv[0] = 0
\* and obv[i] = obv[i-1] + sign(close[i] - close[i-1]) * volume[i] for every
\* later row.
C24_ObvRecurrence ==
    Evaluated("calculate_obv") =>
        LET obv == returned.value
        IN  /\ DOMAIN obv = DOMAIN args.close
            /\ obv[1] = 0
            /\ \A i \in 2..Len(obv) :
                 obv[i] = obv[i - 1] + Sgn(args.close[i] - args.close[i - 1]) * args.volume[i]

\* C24 witness: the OBV of 21 candles with a rising, a falling and an
\* unchanged close, each at a volume above 0
C24_Witness ==
    /\ Evaluated("calculate_obv") /\ Len(args.close) = 21
    /\ \A sign \in {-1, 0, 1} :
         \E i \in 2..21 : /\ Sgn(args.close[i] - args.close[i - 1]) = sign
                          /\ args.volume[i] > 0
    /\ returned.value[21] # 0

Direction(now, before) == IF now > before THEN "up" ELSE "down"

\* C27: the divergence flag of analyze_obv is true exactly when the direction
\* of the price from close[t-5] to close[t] differs from the direction of the
\* OBV from obv[t-5] to obv[t], t being the last candle.
C27_DivergenceOverFiveCandles ==
    Evaluated("analyze_obv") /\ Len(args.close) >= 20 =>
        LET t == Len(args.close)
            obv == calculate_obv(args)
        IN  returned.value.obv_divergence
              = (Direction(args.close[t], args.close[t - 5]) # Direction(obv[t], obv[t - 5]))

\* C28: when volume_sma of the last candle is zero or undefined, analyze_volume
\* takes the volume ratio to be 1.0 and high_volume is False.
C28_VolumeRatioGuarded ==
    Evaluated("analyze_volume") /\ Len(args.close) >= 2 =>
        (iloc(calculate_volume_sma(args, 20), -1) \in {Num(0), NaN}
            => returned.value.volume_ratio = Num(1) /\ ~returned.value.high_volume)

\* C22: right after update_local_extremes, in a tick whose signal has a
\* bullish main_trend local_high is at least the tick's price, and in a tick
\* whose signal has a bearish main_trend local_low is at most the tick's price,
\* whatever the position is.
C22_ExtremesTracked ==
    pc = "sltp" =>
        /\ signal.main_trend = "bullish" => FGe(local_high, Num(signal.price))
        /\ signal.main_trend = "bearish" => FLe(local_low, Num(signal.price))

\* the pullback of the price below local_high and its bounce above local_low,
\* in percent (section 4.4)
Pullback(b, price) == Frac((b.local_high.n - price * b.local_high.d) * 100, b.local_high.n)
Bounce(b, price) == Frac((price * b.local_low.d - b.local_low.n) * 100, b.local_low.n)
Dip(b, price) == b.local_high.n > 0 /\ FGe(Pullback(b, price), Num(pullback_percent))
Rip(b, price) == b.local_low.d > 0 /\ FGe(Bounce(b, price), Num(bounce_percent))

\* C21: in a tick check_contrarian_entry is evaluated only after
\* check_pyramid_opportunity returned False, it returns False whenever a
\* position is open, and at most one of add_to_position and the contrarian
\* branch runs.
C21_PyramidBeforeContrarian ==
    /\ pc = "add_to_position" => returned.pyramid = TRUE /\ returned.contrarian = "None"
    /\ pc = "check_contrarian" => returned.pyramid = FALSE
    /\ pc \in {"contrarian_trade", "normal_trade"} =>
         /\ returned.pyramid = FALSE
         /\ position # "none" => returned.contrarian = FALSE
    /\ pc = "tick" /\ iteration > 0 =>
         returned.ran \in {<<"add_to_position">>, <<"contrarian">>, <<"normal">>}

\* C21 witness: with a LONG open, a bullish main trend, a bullish OBV and the
\* price more than 1 % below local_high, no pyramid was due and
\* check_contrarian_entry returned False
C21_Witness ==
    /\ pc = "normal_trade" /\ position = "long"
    /\ Get(signal, "main_trend") = "BULLISH" /\ Get(signal, "obv_trend") = "bullish"
    /\ Dip(Self, signal.price)
    /\ returned.pyramid = FALSE /\ returned.contrarian = FALSE

\* C23: when no position is open and generate_signal reports a bullish main
\* trend and a bullish OBV trend at a price at least pullback_percent below
\* local_high, check_contrarian_entry returns True; likewise for a bearish main
\* trend and OBV trend at a price at least bounce_percent above local_low.
C23_ContrarianDetected ==
    /\ pc \in {"contrarian_trade", "normal_trade"}
    /\ signal \in GeneratedSignals
    /\ position = "none"
    /\ \/ /\ signal.main_trend = "bullish" /\ signal.obv_analysis.obv_trend = "bullish"
          /\ Dip(Self, signal.price)
       \/ /\ signal.main_trend = "bearish" /\ signal.obv_analysis.obv_trend = "bearish"
          /\ Rip(Self, signal.price)
    => returned.contrarian = TRUE

\* C30: run(iterations = n) returns after exactly n iterations and does not
\* sleep after the last one; a KeyboardInterrupt during a sleep ends run with
\* the position and the ledger as the last iteration left them.
C30_TerminatesAndCancels ==
    /\ [](pc \in {"done", "crashed"} => iteration = MaxIterations)
    /\ [](pc = "sleeping" => iteration < MaxIterations)
    /\ [][pc' = "interrupted" =>
            /\ pc = "sleeping"
            /\ PositionOf(Self)' = PositionOf(Self)
            /\ closed_trades' = closed_trades]_vars

\* the votes counted from the fields of a returned signal
BuyVotes(sig) ==
    Votes(sig.trend = "bullish", 2)
    + Votes(sig.obv_analysis.obv_trend = "bullish", 1)
    + Votes(sig.volume_analysis.high_volume, 1)
    + Votes(sig.volume_analysis.increasing_volume, 1)
    + Votes(FGt(Num(sig.price), sig.ma10) /\ FGt(sig.ma10, sig.ma30), 1)
    + Votes(FGt(Num(sig.price), sig.ma60), 1)

SellVotes(sig) ==
    IF sig.main_trend \in {"strong_bullish", "bullish"} THEN 0
    ELSE Votes(sig.trend = "bearish", 2)
         + Votes(sig.obv_analysis.obv_trend = "bearish", 1)
         + Votes(FLt(Num(sig.price), sig.ma10) /\ FLt(sig.ma10, sig.ma30), 1)
         + Votes(FLt(Num(sig.price), sig.ma60), 1)
         + Votes(sig.obv_analysis.obv_divergence, 1)
         + Votes(sig.volume_analysis.high_volume, 1)

Waiting(buy, sell) ==
    <<"Waiting for stronger confirmation (BUY:" \o ToString(buy)
      \o "/4, SELL:" \o ToString(sell) \o "/4)">>

\* C31: the votes generate_signal acts on are those its returned analysis
\* shows: two for a bullish (bearish) trend and one for each of the five other
\* buy (sell) conditions, no sell vote under a bullish main trend; both counts
\* lie in 0..7, the signal and its confidence follow from them, and a HOLD
\* reports both counts.
C31_VoteCounts ==
    Evaluated("generate_signal") /\ args.len >= 60 =>
        LET sig == returned.value
            buy == BuyVotes(sig)
            sell == SellVotes(sig)
        IN  /\ buy \in 0..7 /\ sell \in 0..7
            /\ sig.signal = "BUY" <=> buy >= 4
            /\ sig.signal = "BUY" => sig.confidence = Confidence(buy)
            /\ sig.signal = "SELL" <=> buy < 4 /\ sell >= 4
            /\ sig.signal = "SELL" => sig.confidence = Confidence(sell)
            /\ sig.signal = "HOLD" => sig.reasons = Waiting(buy, sell)

\* C31 witness: a signal returned with all seven buy votes, and so BUY with
\* confidence 100
C31_Witness ==
    /\ Evaluated("generate_signal") /\ args.len >= 60
    /\ BuyVotes(returned.value) = 7
    /\ returned.value.signal = "BUY" /\ returned.value.confidence = 100

Lists(list, c, entry) == c => \E i \in DOMAIN list : list[i] = entry

\* C32: the reasons of a BUY or SELL returned on at least 60 candles hold one
\* entry for each condition that added a vote to it, and the entry of the
\* main-trend veto when the veto applied; a BUY under a bullish main trend
\* still lists its buy conditions.
C32_ReasonsComplete ==
    Evaluated("generate_signal") /\ args.len >= 60 =>
        LET sig == returned.value
            above == FGt(Num(sig.price), sig.ma10) /\ FGt(sig.ma10, sig.ma30)
            below == FLt(Num(sig.price), sig.ma10) /\ FLt(sig.ma10, sig.ma30)
        IN  /\ sig.signal = "BUY" =>
                /\ Lists(sig.reasons, sig.trend = "bullish", "Bullish trend detected")
                /\ Lists(sig.reasons, sig.obv_analysis.obv_trend = "bullish", "OBV trending up")
                /\ Lists(sig.reasons, sig.volume_analysis.high_volume, "High volume")
                /\ Lists(sig.reasons, sig.volume_analysis.increasing_volume, "Increasing volume")
                /\ Lists(sig.reasons, above, "Price above key MAs")
                /\ Lists(sig.reasons, FGt(Num(sig.price), sig.ma60), "Price above long-term MA")
                /\ Lists(sig.reasons, sig.main_trend \in {"strong_bullish", "bullish"},
                         "Main trend is bullish - avoiding SHORT")
            /\ sig.signal = "SELL" =>
                /\ Lists(sig.reasons, sig.trend = "bearish", "Bearish trend detected")
                /\ Lists(sig.reasons, sig.obv_analysis.obv_trend = "bearish", "OBV trending down")
                /\ Lists(sig.reasons, below, "Price below key MAs")
                /\ Lists(sig.reasons, FLt(Num(sig.price), sig.ma60), "Price below long-term MA")
                /\ Lists(sig.reasons, sig.obv_analysis.obv_divergence, "OBV divergence detected")
                /\ Lists(sig.reasons, sig.volume_analysis.high_volume, "High volume confirmation")

CloseTypes ==
    {"CLOSE_LONG", "CLOSE_SHORT", "STOP_LOSS_LONG", "STOP_LOSS_SHORT",
     "TAKE_PROFIT_LONG", "TAKE_PROFIT_SHORT"}
IsClose(trade) == trade.type \in CloseTypes
\* the closes of a ledger: type, entry price and exit price
ClosesOf(trades) ==
    LET closes == SelectSeq(trades, IsClose)
    IN  [i \in 1..Len(closes) |->
            <<closes[i].type, closes[i].entry_price, closes[i].exit_price>>]
LivePosition ==
    IF position = "long" THEN "LONG" ELSE IF position = "short" THEN "SHORT" ELSE "None"

\* C33: fed the same frames, with every order filled and a sufficient balance,
\* the backtest holds after every tick the position the live loop holds, at
\* the same entry price, and has recorded the same closes with the same entry
\* and exit prices.
C33_BacktestReplaysLive ==
    pc = "replay" =>
        /\ args.position = LivePosition
        /\ args.position # "None" => args.entry_price = entry_price
        /\ ClosesOf(args.trades) = ClosesOf(closed_trades)

\* C34: on at least 60 candles of positive prices a bullish detect_trend
\* makes generate_signal return BUY and a bearish one makes it return SELL:
\* under a bearish trend the main trend is not bullish and at most three buy
\* votes are left.
C34_TrendDecides ==
    Evaluated("generate_signal") /\ args.len >= 60 =>
        LET sig == returned.value
        IN  /\ sig.trend = "bullish" => sig.signal = "BUY"
            /\ sig.trend = "bearish" =>
                /\ sig.signal = "SELL"
                /\ sig.main_trend \notin {"strong_bullish", "bullish"}
                /\ FLt(sig.ma30, sig.ma60)
                /\ BuyVotes(sig) <= 3

\* C34 witness: a bearish frame with three buy votes (OBV up, high and
\* increasing volume) was scored SELL
C34_Witness ==
    /\ Evaluated("generate_signal") /\ args.len >= 60
    /\ returned.value.trend = "bearish" /\ BuyVotes(returned.value) = 3
    /\ returned.value.signal = "SELL"

\* C35: every signal generate_signal returns has a confidence in 0..100: a
\* BUY or SELL has 60, 75, 90 or 100 and a HOLD has 0, so the min_confidence
\* gate of execute_trade lets every BUY and SELL through; on the testnet a
\* tick that scores SELL with no position open ends SHORT.
C35_ConfidenceValues ==
    /\ Evaluated("generate_signal") =>
          LET sig == returned.value
          IN  /\ sig.confidence \in 0..100
              /\ sig.signal \in {"BUY", "SELL"} =>
                    sig.confidence \in {60, 75, 90, 100} /\ sig.confidence >= min_confidence
              /\ sig.signal = "HOLD" => sig.confidence = 0
    /\ Evaluated("run") /\ TESTNET /\ generate_signal(args).signal = "SELL" =>
          position = "short" /\ entry_price = Num(args.close)

\* C35 witness: a SELL of confidence 60, the lowest a trade signal has, went
\* through the gate and opened a SHORT
C35_Witness ==
    /\ Evaluated("run") /\ TESTNET
    /\ generate_signal(args).signal = "SELL" /\ generate_signal(args).confidence = 60
    /\ position = "short"

C37_OneCloseATick ==
    pc = "tick_done" => Len(Appended(tick_start, Self)) <= 1

\* C38: positions_closed never exceeds positions_opened, and
\* positions_opened - positions_closed is 1 while a position is open and 0
\* while there is none, whatever the signals, balances and order outcomes.
C38_CountersMatchPosition ==
    /\ positions_closed <= positions_opened
    /\ pc \in {"fetch", "tick_done", "no_data", "sleeping", "done"} =>
          positions_opened - positions_closed = IF position = "none" THEN 0 ELSE 1

\* C39: under every configuration with TRADE_AMOUNT > 0 and
\* MAX_POSITION_SIZE > 0 the position never exceeds MAX_POSITION_SIZE: not
\* after a LONG open, a SHORT open (simulated or not) or a pyramid add.
C39_PositionBounded ==
    TRADE_AMOUNT > 0 /\ MAX_POSITION_SIZE > 0 => position_size <= MAX_POSITION_SIZE

\* the signal tracked in iteration i of the long session
Tracked(i) == history_entry(BotView(generate_signal(Fetched(args, i).data)))

\* C40: after any number of ticks total_signals is the sum of the BUY, SELL
\* and HOLD counters, signals_history holds the last signals, 20 at most, in
\* the order they arrived, min_price <= max_price once a signal is tracked,
\* and positions_closed is the length of closed_trades.
C40_SessionCounters ==
    LET stats == session_stats
        kept == Min(iteration, 20)
    IN  /\ stats.total_signals = iteration
        /\ stats.total_signals = stats.buy_signals + stats.sell_signals + stats.hold_signals
        /\ Len(stats.signals_history) = kept
        /\ \A j \in 1..kept : stats.signals_history[j] = Tracked(iteration - kept + j)
        /\ iteration > 0 => FLe(stats.min_price, stats.max_price)
        /\ positions_closed = Len(closed_trades)

\* C40 witness: 22 signals have been tracked, two have left a history that
\* holds different signals, and trades have been closed
C40_Witness ==
    /\ iteration = 22 /\ Len(session_stats.signals_history) = 20
    /\ session_stats.signals_history[1] # session_stats.signals_history[2]
    /\ session_stats.buy_signals > 0 /\ session_stats.sell_signals > 0
    /\ positions_closed > 0

====
